---- MODULE Spec2Model ----
(***************************************************************************)
(* A model of the MCP browser-search server: the tool dispatcher of        *)
(* BaseMCPServer, the handlers of the server variants, the Validator, the  *)
(* CacheService, the result parsers of BaseSearchService and the curl      *)
(* fetch of HttpSearchService.                                             *)
(*                                                                         *)
(* Strings on which the code works character by character (queries,        *)
(* titles, hrefs, cache keys) are sequences of one-character strings;      *)
(* messages are TLA+ strings.  A JavaScript value is a record tagged with  *)
(* its typeof.                                                             *)
(***************************************************************************)
EXTENDS Integers, Sequences, FiniteSets, TLC

VARIABLES
  variant,    \* which server variant runs: "enhanced", "fallback", "browser"
  reqs,       \* request id -> the tools/call request and its progress
  cache,      \* CacheService.cache: key -> entry (absent keys are not in DOMAIN)
  now,        \* Date.now()
  timerOn,    \* CacheService.cleanupInterval is set
  lastSet,    \* history: key -> the most recent set / delete / clear of the key
  lastOp,     \* history: the most recent cache operation and what it returned
  curl,       \* fetchWithCurl: the child process, its output and the promise
  browser,    \* BrowserSearchService: this.browser, the pages and the calls
  proc,       \* the process: running, cleaning up or exited, and its log
  fn          \* a function of the code applied to an input: its name, the
              \* input and the value it returned

vars ==
  <<variant, reqs, cache, now, timerOn, lastSet, lastOp, curl, browser, proc,
    fn>>

-----------------------------------------------------------------------------
(* JavaScript values *)

Undef == [t |-> "undefined"]
Str(s) == [t |-> "string", s |-> s]
Num(n) == [t |-> "number", n |-> n, frac |-> FALSE, nan |-> FALSE]
Bool(b) == [t |-> "boolean", b |-> b]
Arr(a) == [t |-> "array", a |-> a]

\* JavaScript truthiness, as used by !x and x || y
Truthy(v) ==
  CASE v.t = "undefined" -> FALSE
    [] v.t = "null" -> FALSE
    [] v.t = "string" -> Len(v.s) > 0
    [] v.t = "number" -> ~v.nan /\ (v.frac \/ v.n # 0)
    [] v.t = "boolean" -> v.b
    [] OTHER -> TRUE

\* a || b
OrElse(a, b) == IF Truthy(a) THEN a ELSE b

-----------------------------------------------------------------------------
(* Characters *)

LowerLetters ==
  {"a", "b", "c", "d", "e", "f", "g", "h", "i", "j", "k", "l", "m",
   "n", "o", "p", "q", "r", "s", "t", "u", "v", "w", "x", "y", "z"}

Digits == {"0", "1", "2", "3", "4", "5", "6", "7", "8", "9"}

WhiteSpace == {" ", "\t", "\n"}

\* String.prototype.toLowerCase, one character
LowerChar(c) ==
  CASE c = "A" -> "a"
    [] c = "B" -> "b"
    [] c = "C" -> "c"
    [] c = "D" -> "d"
    [] c = "E" -> "e"
    [] c = "F" -> "f"
    [] c = "G" -> "g"
    [] c = "H" -> "h"
    [] c = "I" -> "i"
    [] c = "J" -> "j"
    [] c = "K" -> "k"
    [] c = "L" -> "l"
    [] c = "M" -> "m"
    [] c = "N" -> "n"
    [] c = "O" -> "o"
    [] c = "P" -> "p"
    [] c = "Q" -> "q"
    [] c = "R" -> "r"
    [] c = "S" -> "s"
    [] c = "T" -> "t"
    [] c = "U" -> "u"
    [] c = "V" -> "v"
    [] c = "W" -> "w"
    [] c = "X" -> "x"
    [] c = "Y" -> "y"
    [] c = "Z" -> "z"
    [] OTHER -> c

toLowerCase(s) == [i \in 1..Len(s) |-> LowerChar(s[i])]

RECURSIVE TrimStart(_)
TrimStart(s) ==
  IF Len(s) > 0 /\ Head(s) \in WhiteSpace THEN TrimStart(Tail(s)) ELSE s

RECURSIVE TrimEnd(_)
TrimEnd(s) ==
  IF Len(s) > 0 /\ s[Len(s)] \in WhiteSpace
  THEN TrimEnd(SubSeq(s, 1, Len(s) - 1)) ELSE s

\* String.prototype.trim
trim(s) == TrimEnd(TrimStart(s))

\* s.startsWith(p)
StartsWith(s, p) == Len(s) >= Len(p) /\ SubSeq(s, 1, Len(p)) = p

\* s.substring(0, n)
substring0(s, n) == IF Len(s) > n THEN SubSeq(s, 1, n) ELSE s

\* a.join(sep) for an array of strings
RECURSIVE join(_, _)
join(parts, sep) ==
  IF Len(parts) = 0 THEN <<>>
  ELSE IF Len(parts) = 1 THEN parts[1]
  ELSE parts[1] \o sep \o join(Tail(parts), sep)

\* String(n) for the integers the model uses
RECURSIVE NumChars(_)
NumChars(n) ==
  IF n < 0 THEN <<"-">> \o NumChars(0 - n)
  ELSE IF n < 10 THEN <<CHOOSE d \in Digits : ToString(n) = d>>
  ELSE NumChars(n \div 10) \o NumChars(n % 10)

\* Literals
Chars_cats == <<"c", "a", "t", "s">>
Chars_dogs == <<"d", "o", "g", "s">>
Chars_Cats_padded == <<" ", "C", "a", "t", "s", " ">>
Chars_blank == <<" ", " ">>
Chars_duckduckgo == <<"d", "u", "c", "k", "d", "u", "c", "k", "g", "o">>
Chars_google == <<"g", "o", "o", "g", "l", "e">>
Chars_Google == <<"G", "o", "o", "g", "l", "e">>
Chars_bing == <<"b", "i", "n", "g">>
Chars_searx == <<"s", "e", "a", "r", "x">>
Chars_startpage == <<"s", "t", "a", "r", "t", "p", "a", "g", "e">>
Chars_yahoo == <<"y", "a", "h", "o", "o">>
Chars_search == <<"s", "e", "a", "r", "c", "h">>
Chars_en == <<"e", "n">>
Chars_us == <<"u", "s">>
Chars_english == <<"e", "n", "g", "l", "i", "s", "h">>
Chars_http == <<"h", "t", "t", "p">>
Chars_https == <<"h", "t", "t", "p", "s">>

-----------------------------------------------------------------------------
(* Errors and results of a call that may throw *)

\* new ValidationError(message, field)
ValidationError(message) ==
  [name |-> "ValidationError", message |-> message, code |-> Undef]

\* new Error(message)
Error(message) == [name |-> "Error", message |-> message, code |-> Undef]

Ok(v) == [ok |-> TRUE, v |-> v]
Throw(e) == [ok |-> FALSE, err |-> e]

-----------------------------------------------------------------------------
(* Validator *)

MaxQueryLength == 500
MAX_RESULTS == 50
DEFAULT_MAX_RESULTS == 10
MaxLabelMiddle == 61

SEARCH_ENGINES ==
  {Chars_google, Chars_bing, Chars_duckduckgo, Chars_searx, Chars_startpage}

validateQuery(query) ==
  IF ~Truthy(query) \/ query.t # "string"
  THEN Throw(ValidationError("Query is required and must be a string"))
  ELSE LET trimmed == trim(query.s) IN
       IF Len(trimmed) = 0
       THEN Throw(ValidationError("Query cannot be empty"))
       ELSE IF Len(trimmed) > MaxQueryLength
       THEN Throw(ValidationError("Query too long (max 500 characters)"))
       ELSE Ok(trimmed)

validateSearchEngine(engine) ==
  IF ~Truthy(engine) \/ engine.t # "string"
  THEN Ok(Chars_duckduckgo)
  ELSE LET normalizedEngine == toLowerCase(engine.s) IN
       IF normalizedEngine \notin SEARCH_ENGINES
       THEN Throw(ValidationError(
              "Invalid search engine. Must be one of: google, bing, duckduckgo, searx, startpage"))
       ELSE Ok(normalizedEngine)

\* Number(v), for the argument values of the model: [nan, n, frac] is the
\* number n (+ 0.5 when frac), or NaN
AllDigits(s) == \A i \in 1..Len(s) : s[i] \in Digits

RECURSIVE DigitsValue(_)
DigitsValue(s) ==
  IF Len(s) = 0 THEN 0
  ELSE 10 * DigitsValue(SubSeq(s, 1, Len(s) - 1))
       + (CHOOSE d \in 0..9 : ToString(d) = s[Len(s)])

ToNumber(v) ==
  CASE v.t = "number" -> [nan |-> v.nan, n |-> v.n, frac |-> v.frac]
    [] v.t = "boolean" -> [nan |-> FALSE, n |-> IF v.b THEN 1 ELSE 0, frac |-> FALSE]
    [] v.t = "string" ->
         IF AllDigits(trim(v.s))
         THEN [nan |-> FALSE, n |-> DigitsValue(trim(v.s)), frac |-> FALSE]
         ELSE [nan |-> TRUE, n |-> 0, frac |-> FALSE]
    [] OTHER -> [nan |-> TRUE, n |-> 0, frac |-> FALSE]

validateMaxResults(maxResults) ==
  IF maxResults.t \in {"undefined", "null"}
  THEN Ok(DEFAULT_MAX_RESULTS)
  ELSE LET num == ToNumber(maxResults) IN
       IF num.nan \/ num.frac \/ num.n < 1 \/ num.n > MAX_RESULTS
       THEN Throw(ValidationError("maxResults must be an integer between 1 and 50"))
       ELSE Ok(num.n)

\* /^[a-z]{2}(-[a-z]{2})?$/
IsLanguageCode(s) ==
  \/ Len(s) = 2 /\ s[1] \in LowerLetters /\ s[2] \in LowerLetters
  \/ /\ Len(s) = 5
     /\ s[1] \in LowerLetters /\ s[2] \in LowerLetters /\ s[3] = "-"
     /\ s[4] \in LowerLetters /\ s[5] \in LowerLetters

validateLanguage(language) ==
  IF ~Truthy(language) THEN Ok(Chars_en)
  ELSE IF language.t # "string"
  THEN Throw(ValidationError("Language must be a string"))
  ELSE LET trimmed == toLowerCase(trim(language.s)) IN
       IF ~IsLanguageCode(trimmed)
       THEN Throw(ValidationError("Language must be a valid language code (e.g., \"en\", \"es\", \"en-US\")"))
       ELSE Ok(trimmed)

\* /^[a-z]{2}$/
IsRegionCode(s) == Len(s) = 2 /\ s[1] \in LowerLetters /\ s[2] \in LowerLetters

validateRegion(region) ==
  IF ~Truthy(region) THEN Ok(Chars_us)
  ELSE IF region.t # "string"
  THEN Throw(ValidationError("Region must be a string"))
  ELSE LET trimmed == toLowerCase(trim(region.s)) IN
       IF ~IsRegionCode(trimmed)
       THEN Throw(ValidationError("Region must be a valid 2-letter country code (e.g., \"us\", \"uk\", \"de\")"))
       ELSE Ok(trimmed)

Chars_true == <<"t", "r", "u", "e">>
Chars_false == <<"f", "a", "l", "s", "e">>

\* never throws
validateBoolean(value, defaultValue) ==
  CASE value.t = "undefined" -> defaultValue
    [] value.t = "boolean" -> value.b
    [] value.t = "string" ->
         LET lower == toLowerCase(value.s) IN
         IF lower \in {Chars_true, <<"1">>, <<"y", "e", "s">>, <<"o", "n">>} THEN TRUE
         ELSE IF lower \in {Chars_false, <<"0">>, <<"n", "o">>, <<"o", "f", "f">>}
         THEN FALSE
         ELSE defaultValue
    [] value.t = "number" -> value.nan \/ value.frac \/ value.n # 0
    [] OTHER -> defaultValue

\* validateQueries: the first query that fails decides the message
RECURSIVE validateQueriesFrom(_, _, _)
validateQueriesFrom(qs, i, acc) ==
  IF i > Len(qs) THEN Ok(acc)
  ELSE LET validated == validateQuery(qs[i]) IN
       IF validated.ok
       THEN validateQueriesFrom(qs, i + 1, Append(acc, validated.v))
       ELSE Throw(ValidationError(
              "Query " \o ToString(i) \o ": " \o validated.err.message))

MaxQueries == 10

validateQueries(queries) ==
  IF queries.t # "array"
  THEN Throw(ValidationError("Queries must be an array"))
  ELSE IF Len(queries.a) = 0
  THEN Throw(ValidationError("Queries array cannot be empty"))
  ELSE IF Len(queries.a) > MaxQueries
  THEN Throw(ValidationError("Too many queries (max 10)"))
  ELSE validateQueriesFrom(queries.a, 1, <<>>)

\* the index of the first element of s in set cs, or Len(s) + 1
RECURSIVE IndexOfAny(_, _, _)
IndexOfAny(s, cs, i) ==
  IF i > Len(s) THEN Len(s) + 1
  ELSE IF s[i] \in cs THEN i
  ELSE IndexOfAny(s, cs, i + 1)

RECURSIVE DropWhileIn(_, _)
DropWhileIn(s, cs) ==
  IF Len(s) > 0 /\ Head(s) \in cs THEN DropWhileIn(Tail(s), cs) ELSE s

IsAlnum(c) == LowerChar(c) \in LowerLetters \cup Digits

\* code points that may not occur in the host of a URL
ForbiddenHostChars == WhiteSpace \cup {"#", "<", ">", "@", "[", "]", "^", "|", "%", ":"}

SpecialSchemes == {Chars_http, Chars_https, <<"f", "t", "p">>}

\* new URL(input), without a base: [ok, protocol, host, path]
BadURL == [ok |-> FALSE, protocol |-> <<>>, host |-> <<>>, path |-> <<>>]

SchemeOk(s, colon) ==
  /\ colon <= Len(s)
  /\ colon > 1
  /\ LowerChar(s[1]) \in LowerLetters
  /\ \A i \in 1..(colon - 1) : IsAlnum(s[i]) \/ s[i] \in {"+", "-", "."}

ParseURLHost(scheme, host, path) ==
  IF Len(host) = 0 \/ \E i \in 1..Len(host) : host[i] \in ForbiddenHostChars
  THEN BadURL
  ELSE [ok |-> TRUE, protocol |-> scheme, host |-> host,
        path |-> IF Len(path) = 0 THEN <<"/">> ELSE path]

ParseURLAfterSlashes(scheme, afterSlashes) ==
  ParseURLHost(
    scheme,
    toLowerCase(SubSeq(afterSlashes, 1,
                       IndexOfAny(afterSlashes, {"/", "?", "#"}, 1) - 1)),
    SubSeq(afterSlashes, IndexOfAny(afterSlashes, {"/", "?", "#"}, 1),
           Len(afterSlashes)))

ParseURLRest(scheme, rest) ==
  IF scheme \notin SpecialSchemes
  THEN [ok |-> TRUE, protocol |-> scheme, host |-> <<>>, path |-> rest]
  ELSE ParseURLAfterSlashes(scheme, DropWhileIn(rest, {"/", "\\"}))

ParseURLScheme(s, colon) ==
  IF ~SchemeOk(s, colon) THEN BadURL
  ELSE ParseURLRest(toLowerCase(SubSeq(s, 1, colon - 1)),
                    SubSeq(s, colon + 1, Len(s)))

ParseURL(input) == ParseURLScheme(trim(input), IndexOfAny(trim(input), {":"}, 1))

\* URL.prototype.toString
URLtoString(u) ==
  IF u.protocol \in SpecialSchemes
  THEN u.protocol \o <<":", "/", "/">> \o u.host \o u.path
  ELSE u.protocol \o <<":">> \o u.path

validateParsedUrl(parsedUrl) ==
  IF ~parsedUrl.ok
  THEN Throw(ValidationError("Invalid URL format"))
  ELSE IF parsedUrl.protocol \notin {Chars_http, Chars_https}
  THEN Throw(ValidationError("URL must use HTTP or HTTPS protocol"))
  ELSE Ok(URLtoString(parsedUrl))

validateUrl(url) ==
  IF ~Truthy(url) \/ url.t # "string"
  THEN Throw(ValidationError("URL is required and must be a string"))
  ELSE validateParsedUrl(ParseURL(url.s))

\* s.split(sep): the pieces of s between the separators
RECURSIVE split(_, _)
split(s, sep) ==
  LET i == IndexOfAny(s, {sep}, 1) IN
  IF i > Len(s) THEN <<s>>
  ELSE <<SubSeq(s, 1, i - 1)>> \o split(SubSeq(s, i + 1, Len(s)), sep)

\* [a-z0-9]([a-z0-9-]{0,61}[a-z0-9])?  (with the i flag)
IsDomainLabel(l) ==
  /\ Len(l) >= 1
  /\ Len(l) <= MaxLabelMiddle + 2
  /\ IsAlnum(l[1])
  /\ IsAlnum(l[Len(l)])
  /\ \A i \in 1..Len(l) : IsAlnum(l[i]) \/ l[i] = "-"

\* domainRegex.test(s)
MatchesDomainRegex(s) ==
  LET labels == split(s, ".") IN
  \A i \in 1..Len(labels) : IsDomainLabel(labels[i])

\* s.replace(/^https?:\/\//, '')
StripProtocol(s) ==
  IF StartsWith(s, Chars_https \o <<":", "/", "/">>)
  THEN SubSeq(s, Len(Chars_https) + 4, Len(s))
  ELSE IF StartsWith(s, Chars_http \o <<":", "/", "/">>)
  THEN SubSeq(s, Len(Chars_http) + 4, Len(s))
  ELSE s

\* the case of the input is kept
validateDomain_KeepsCase(domain) ==
  IF ~Truthy(domain) \/ domain.t # "string"
  THEN Throw(ValidationError("Domain is required and must be a string"))
  ELSE IF ~MatchesDomainRegex(split(StripProtocol(trim(domain.s)), "/")[1])
  THEN Throw(ValidationError("Invalid domain format"))
  ELSE Ok(split(StripProtocol(trim(domain.s)), "/")[1])

validateDomain(domain) ==
  IF ~Truthy(domain) \/ domain.t # "string"
  THEN Throw(ValidationError("Domain is required and must be a string"))
  ELSE LET domainOnly ==
             split(StripProtocol(toLowerCase(trim(domain.s))), "/")[1]
       IN IF ~MatchesDomainRegex(domainOnly)
          THEN Throw(ValidationError("Invalid domain format"))
          ELSE Ok(domainOnly)

Chars_article == <<"a", "r", "t", "i", "c", "l", "e">>
Chars_text_only == <<"t", "e", "x", "t", "_", "o", "n", "l", "y">>

validateContentType(contentType) ==
  IF ~Truthy(contentType) THEN Ok(Chars_article)
  ELSE IF contentType.t # "string"
  THEN Throw(ValidationError("Content type must be a string"))
  ELSE LET normalized == toLowerCase(contentType.s) IN
       IF normalized \notin {Chars_article, <<"a", "l", "l">>, Chars_text_only}
       THEN Throw(ValidationError("Invalid content type. Must be one of: article, all, text_only"))
       ELSE Ok(normalized)

-----------------------------------------------------------------------------
(* CacheService *)

\* this.ttl, in clock ticks
CacheTTL == 2
\* the clock stops here
MaxTime == 3
MaxKeyLength == 200

Null == [t |-> "null"]

\* String(p)
String(p) ==
  CASE p.t = "string" -> p.s
    [] p.t = "number" -> NumChars(p.n)
    [] p.t = "boolean" -> IF p.b THEN Chars_true ELSE Chars_false
    [] OTHER -> <<>>

\* /[^\w\-:.]/
IsKeyChar(c) == c \in LowerLetters \cup Digits \cup {"_", "-", ":", "."}

normalizeKey(key) ==
  LET lower == toLowerCase(key)
      replaced == [i \in 1..Len(lower) |->
                     IF IsKeyChar(lower[i]) THEN lower[i] ELSE "_"]
  IN substring0(replaced, MaxKeyLength)

\* [prefix, ...parts.map(p => String(p))].join(':')
joinedKey(prefix, parts) ==
  join(<<prefix>> \o [i \in 1..Len(parts) |-> String(parts[i])], <<":">>)

generateKey(prefix, parts) == normalizeKey(joinedKey(prefix, parts))

\* this.cache.delete(key)
MapDelete(c, key) == [k \in (DOMAIN c) \ {key} |-> c[k]]

\* set(key, value) at time t: the new store
\* a set that leaves an entry that is there alone
CacheSet_KeepsFirst(c, key, value, t) ==
  [k \in (DOMAIN c) \cup {key} |->
     IF k = key /\ k \notin DOMAIN c THEN [results |-> value, timestamp |-> t] ELSE c[k]]

CacheSet(c, key, value, t) ==
  [k \in (DOMAIN c) \cup {key} |->
     IF k = key THEN [results |-> value, timestamp |-> t] ELSE c[k]]

\* get(key) at time t: the value returned and the new store
CacheGet_NoExpiry(c, key, t) ==
  IF key \notin DOMAIN c THEN [ret |-> Null, store |-> c]
  ELSE [ret |-> c[key].results, store |-> c]

CacheGet(c, key, t) ==
  IF key \notin DOMAIN c THEN [ret |-> Null, store |-> c]
  ELSE LET age == t - c[key].timestamp IN
       IF age > CacheTTL
       THEN [ret |-> Null, store |-> MapDelete(c, key)]
       ELSE [ret |-> c[key].results, store |-> c]

\* has(key) at time t
CacheHas(c, key, t) ==
  IF key \notin DOMAIN c THEN [ret |-> FALSE, store |-> c]
  ELSE LET age == t - c[key].timestamp IN
       IF age > CacheTTL
       THEN [ret |-> FALSE, store |-> MapDelete(c, key)]
       ELSE [ret |-> TRUE, store |-> c]

\* cleanup(): the periodic sweep, at time t
CacheCleanup_AtTtl(c, t) ==
  [k \in {k \in DOMAIN c : ~(t - c[k].timestamp >= CacheTTL)} |-> c[k]]

CacheCleanup(c, t) ==
  [k \in {k \in DOMAIN c : ~(t - c[k].timestamp > CacheTTL)} |-> c[k]]

\* clear()
EmptyStore == [k \in {} |-> Null]

\* the keys and values of the cache operations of SpecCache
CacheKeys == {<<"k", "1">>, <<"k", "2">>}
CacheValues == {Arr(<<>>), Arr(<<Str(<<"r">>)>>)}

NoOp ==
  [op |-> "none", key |-> <<>>, ret |-> Null, arg |-> Null,
   prevOp |-> "none", prevKey |-> <<>>, prevArg |-> Null]
NeverSet == [live |-> FALSE, value |-> Null, timestamp |-> 0]

\* the history of one cache operation: the operation before it is kept
Record(op, key, ret, arg) ==
  [op |-> op, key |-> key, ret |-> ret, arg |-> arg,
   prevOp |-> lastOp.op, prevKey |-> lastOp.key, prevArg |-> lastOp.arg]

DoSet(k, v) ==
  /\ cache' = CacheSet(cache, k, v, now)
  /\ lastSet' = [lastSet EXCEPT ![k] = [live |-> TRUE, value |-> v, timestamp |-> now]]
  /\ lastOp' = Record("set", k, Null, v)
  /\ UNCHANGED <<variant, reqs, now, timerOn, curl, browser, proc, fn>>

\* an operation that returns r.ret and leaves the store r.store
Returned(op, k, ret, store) ==
  /\ cache' = store
  /\ lastOp' = Record(op, k, ret, Null)

DoGet(k) ==
  /\ Returned("get", k, CacheGet(cache, k, now).ret, CacheGet(cache, k, now).store)
  /\ UNCHANGED <<variant, reqs, now, timerOn, lastSet, curl, browser, proc, fn>>

DoHas(k) ==
  /\ Returned("has", k, Bool(CacheHas(cache, k, now).ret),
              CacheHas(cache, k, now).store)
  /\ UNCHANGED <<variant, reqs, now, timerOn, lastSet, curl, browser, proc, fn>>

DoDelete(k) ==
  /\ cache' = MapDelete(cache, k)
  /\ lastSet' = [lastSet EXCEPT ![k].live = FALSE]
  /\ lastOp' = Record("delete", k, Bool(k \in DOMAIN cache), Null)
  /\ UNCHANGED <<variant, reqs, now, timerOn, curl, browser, proc, fn>>

DoClear ==
  /\ cache' = EmptyStore
  /\ lastSet' = [k \in DOMAIN lastSet |-> [lastSet[k] EXCEPT !.live = FALSE]]
  /\ lastOp' = Record("clear", <<>>, Null, Null)
  /\ UNCHANGED <<variant, reqs, now, timerOn, curl, browser, proc, fn>>

\* the setInterval callback of the constructor
SweepTick ==
  /\ timerOn
  /\ cache' = CacheCleanup(cache, now)
  /\ lastOp' = Record("sweep", <<>>, Null, Null)
  /\ UNCHANGED <<variant, reqs, now, timerOn, lastSet, curl, browser, proc, fn>>

\* time passes
ClockAdvance ==
  /\ now < MaxTime
  /\ now' = now + 1
  /\ lastOp' = Record("tick", <<>>, Null, Null)
  /\ UNCHANGED <<variant, reqs, cache, timerOn, lastSet, curl, browser, proc, fn>>

-----------------------------------------------------------------------------
(* Documents and the result parsers of BaseSearchService *)

\* A fetched page, as the parsers see it: the sequence of its result
\* containers in document order.  cls is the selector the container matches
\* ("result" for .result, "g" for div.g, "b_algo" for li.b_algo), title the
\* text of its title element, href the href attribute of its link (Undef
\* when it has none), snippet the text of its snippet element.
Container(cls, title, href, snippet) ==
  [cls |-> cls, title |-> title, href |-> href, snippet |-> snippet]

\* { key: value, ... }: the keys in insertion order
Obj(keys, vals) == [t |-> "object", keys |-> keys, vals |-> vals]

\* extractDomain(url)
hostname(u) == IF u.ok THEN u.host ELSE <<>>

extractDomain(url) == hostname(ParseURL(url))

SearchResult(title, url, snippet) ==
  Obj(<<"title", "url", "snippet", "domain">>,
      <<Str(title), Str(url), Str(snippet), Str(extractDomain(url))>>)

\* each(...) without the test of results.length
RECURSIVE ParseEach_NoLimit(_, _, _, _, _)
ParseEach_NoLimit(doc, cls, httpOnly, maxResults, results) ==
  IF Len(doc) = 0 THEN results
  ELSE IF doc[1].cls = cls /\ Len(trim(doc[1].title)) > 0 /\ Truthy(doc[1].href)
  THEN ParseEach_NoLimit(Tail(doc), cls, httpOnly, maxResults,
                         Append(results, SearchResult(trim(doc[1].title), doc[1].href.s,
                                                      trim(doc[1].snippet))))
  ELSE ParseEach_NoLimit(Tail(doc), cls, httpOnly, maxResults, results)

\* $(selector).each(...) of the parse*Results methods: cls is the container
\* selector, httpOnly whether the link selector is a[href^="http"]
RECURSIVE ParseEach(_, _, _, _, _)
ParseEach(doc, cls, httpOnly, maxResults, results) ==
  IF Len(doc) = 0 THEN results
  ELSE IF doc[1].cls # cls
  THEN ParseEach(Tail(doc), cls, httpOnly, maxResults, results)
  ELSE IF Len(results) >= maxResults THEN results
  ELSE LET element == doc[1]
           title == trim(element.title)
           url == IF httpOnly /\ element.href.t = "string"
                     /\ ~StartsWith(element.href.s, Chars_http)
                  THEN Undef ELSE element.href
           snippet == trim(element.snippet)
       IN IF Len(title) > 0 /\ Truthy(url)
          THEN ParseEach(Tail(doc), cls, httpOnly, maxResults,
                         Append(results, SearchResult(title, url.s, snippet)))
          ELSE ParseEach(Tail(doc), cls, httpOnly, maxResults, results)

parseDuckDuckGoResults(doc, maxResults) ==
  ParseEach(doc, "result", FALSE, maxResults, <<>>)

parseGoogleResults(doc, maxResults) ==
  ParseEach(doc, "g", TRUE, maxResults, <<>>)

parseBingResults(doc, maxResults) ==
  ParseEach(doc, "b_algo", FALSE, maxResults, <<>>)

parseSearchResults(html, engine, maxResults) ==
  CASE engine = Chars_duckduckgo -> parseDuckDuckGoResults(html, maxResults)
    [] engine = Chars_google -> parseGoogleResults(html, maxResults)
    [] engine = Chars_bing -> parseBingResults(html, maxResults)
    [] engine = Chars_searx -> parseDuckDuckGoResults(html, maxResults)
    [] engine = Chars_startpage -> parseDuckDuckGoResults(html, maxResults)
    [] OTHER -> <<>>

\* BrowserSearchService.getResultSelector
getResultSelector(engine) ==
  CASE engine = Chars_google -> "g"
    [] engine = Chars_bing -> "b_algo"
    [] engine = Chars_duckduckgo -> "result"
    [] engine = Chars_searx -> "result"
    [] engine = Chars_startpage -> "w-gl__result"
    [] OTHER -> "result"

\* page.waitForSelector(selector) finds an element
SelectorMatches(doc, selector) == \E i \in 1..Len(doc) : doc[i].cls = selector

-----------------------------------------------------------------------------
(* JSON.stringify: the text as a sequence of tokens, strings spelled out   *)
(* character by character between quotes                                   *)

RECURSIVE StringifyAt(_, _)
RECURSIVE StringifyItems(_, _)
RECURSIVE StringifyProps(_, _, _)

\* the line break and the indentation of nesting depth d (two spaces a level)
Indent(d) == <<"\n">> \o [i \in 1..(2 * d) |-> " "]

\* the elements of an array, each on its own line
StringifyItems(a, d) ==
  IF Len(a) = 1 THEN Indent(d) \o StringifyAt(a[1], d)
  ELSE Indent(d) \o StringifyAt(a[1], d) \o <<",">> \o StringifyItems(Tail(a), d)

\* the properties of an object, each on its own line
StringifyProps(keys, vals, d) ==
  IF Len(keys) = 1
  THEN Indent(d) \o <<"\"", keys[1], "\"", ":", " ">> \o StringifyAt(vals[1], d)
  ELSE Indent(d) \o <<"\"", keys[1], "\"", ":", " ">> \o StringifyAt(vals[1], d)
         \o <<",">> \o StringifyProps(Tail(keys), Tail(vals), d)

\* the text of v at nesting depth d (the strings of the model need no escapes)
StringifyAt(v, d) ==
  CASE v.t = "string" -> <<"\"">> \o v.s \o <<"\"">>
    [] v.t = "number" -> NumChars(v.n)
    [] v.t = "boolean" -> IF v.b THEN Chars_true ELSE Chars_false
    [] v.t = "array" ->
         IF Len(v.a) = 0 THEN <<"[", "]">>
         ELSE <<"[">> \o StringifyItems(v.a, d + 1) \o Indent(d) \o <<"]">>
    [] v.t = "object" ->
         IF Len(v.keys) = 0 THEN <<"{", "}">>
         ELSE <<"{">> \o StringifyProps(v.keys, v.vals, d + 1) \o Indent(d) \o <<"}">>
    [] OTHER -> <<"n", "u", "l", "l">>

\* JSON.stringify(v, null, 2)
Stringify(v) == StringifyAt(v, 0)

\* { ...value, key: extra }: the own enumerable properties of value, then key
Spread(value, key, extra) ==
  CASE value.t = "array" ->
         Obj([i \in 1..Len(value.a) |-> ToString(i - 1)] \o <<key>>,
             value.a \o <<extra>>)
    [] value.t = "object" ->
         Obj(value.keys \o <<key>>, value.vals \o <<extra>>)
    [] OTHER -> Obj(<<key>>, <<extra>>)

-----------------------------------------------------------------------------
(* BaseMCPServer: envelopes and errors *)

METHOD_NOT_FOUND == -32601
MAX_CONTENT_LENGTH == 5000
DefaultBulkMaxResults == 5

NoResp == [kind |-> "none", isError |-> Undef, text |-> <<>>, code |-> 0, data |-> Null]

\* BaseMCPServer.createErrorResult
createErrorResult(message) ==
  [kind |-> "result", isError |-> Bool(TRUE), text |-> <<"Error: " \o message>>,
   code |-> 0, data |-> Null]

\* BaseMCPServer.createSuccessResult: no isError property
createSuccessResult(data) ==
  [kind |-> "result", isError |-> Undef, text |-> Stringify(data),
   code |-> 0, data |-> data]

\* SharedValidation.createSuccessResult: isError: false
sharedCreateSuccessResult(data) ==
  [kind |-> "result", isError |-> Bool(FALSE),
   text |-> IF data.t = "string" THEN data.s ELSE Stringify(data),
   code |-> 0, data |-> data]

\* BaseMCPServer.createMCPError
createMCPError(code, message) ==
  [name |-> "Error", message |-> message, code |-> Num(code)]

\* BaseMCPServer.isMCPError
isMCPError(error) == error.code.t = "number"

\* an error thrown out of the request handler: the SDK answers the request
\* with a JSON-RPC error
ProtocolError(error) ==
  [kind |-> "protocolError", isError |-> Undef, text |-> <<error.message>>,
   code |-> IF error.code.t = "number" THEN error.code.n ELSE 0, data |-> Null]

\* the catch block of the CallToolRequestSchema handler
CatchToolError_RethrowAll(error) ==
  IF error.name = "ValidationError"
  THEN createErrorResult("Validation error: " \o error.message)
  ELSE ProtocolError(error)

CatchToolError(error) ==
  IF error.name = "ValidationError"
  THEN createErrorResult("Validation error: " \o error.message)
  ELSE IF isMCPError(error)
  THEN ProtocolError(error)
  ELSE createErrorResult(error.message)

\* what a handler does at a point where control leaves it
NoError == [name |-> "", message |-> "", code |-> Undef]
Return(result) == [kind |-> "return", err |-> NoError, result |-> result]
Raise(err) == [kind |-> "throw", err |-> err, result |-> NoResp]
Await == [kind |-> "await", err |-> NoError, result |-> NoResp]

\* reading a property of undefined
TypeError == Error("Cannot read properties of undefined")

\* getTools() of the three variants: the names
getTools(v) ==
  CASE v = "enhanced" ->
         {"search_web", "extract_content", "bulk_search", "analyze_domain", "cache_stats"}
    [] v = "browser" -> {"search_web", "visit_page"}
    [] v = "fallback" -> {"search_web_fallback", "fetch_page"}

-----------------------------------------------------------------------------
(* The outcome of a fetch, as the search service sees it *)

FetchOk(html) == [ok |-> TRUE, html |-> html, message |-> ""]
FetchFail(message) == [ok |-> FALSE, html |-> <<>>, message |-> message]

Chars_a_com == <<"a", ".", "c", "o", "m">>
Href_a == Chars_https \o <<":", "/", "/">> \o Chars_a_com \o <<"/", "x">>
Href_b == Chars_http \o <<":", "/", "/", "b", ".", "o", "r", "g">>
Href_relative == <<"/", "l", "/", "?", "u", "=", "1">>

DocEmpty == <<>>
DocResults ==
  << Container("result", <<" ", "T", "1", " ">>, Str(Href_a), <<"s", "1">>),
     Container("result", <<" ">>, Str(Href_b), <<>>),
     Container("result", <<"T", "2">>, Str(Href_relative), <<>>),
     Container("result", <<"T", "3">>, Undef, <<>>),
     Container("g", <<"T", "4">>, Str(Href_relative), <<>>),
     Container("g", <<"T", "5">>, Str(Href_b), <<"s", "5">>),
     Container("result", <<"T", "6">>, Str(Href_b), <<>>) >>

Docs == {DocEmpty, DocResults}

\* what fetchWithCurl can settle with
HttpOutcomes ==
  {FetchOk(d) : d \in Docs}
    \cup {FetchFail("curl failed with code 6: Unknown error"), FetchFail("Request timeout")}

\* a failure of ensureBrowser or browser.newPage, which are awaited before
\* the try block of search and extractContent
OutsideFail(message) ==
  [ok |-> FALSE, html |-> <<>>, message |-> message, outside |-> TRUE]
IsOutside(outcome) == "outside" \in DOMAIN outcome

LaunchFailed == OutsideFail("browserType.launch: Failed to launch chromium")
NewPageFailed ==
  OutsideFail("browser.newPage: Target page, context or browser has been closed")

\* what the page gives inside the try block: page.goto fails, or
\* page.content returns the document
PageOutcomes ==
  {FetchOk(d) : d \in Docs} \cup {FetchFail("page.goto: net::ERR_NAME_NOT_RESOLVED")}

\* what a call of the browser service can settle with
BrowserOutcomes == PageOutcomes \cup {LaunchFailed}

Outcomes(v) == IF v = "browser" THEN BrowserOutcomes ELSE HttpOutcomes

-----------------------------------------------------------------------------
(* The search services: what runs before and after the awaited fetch *)

\* encodeURIComponent: letters, digits and - _ . ! ~ * ' ( ) are kept, any
\* other character is %XX (of the characters of the queries of the model)
Unreserved == LowerLetters \cup Digits \cup {"-", "_", ".", "!", "~", "*", "'", "(", ")"}

EncodeChar(c) ==
  IF LowerChar(c) \in Unreserved THEN <<c>>
  ELSE CASE c = " " -> <<"%", "2", "0">>
         [] c = "#" -> <<"%", "2", "3">>
         [] c = "%" -> <<"%", "2", "5">>
         [] c = "&" -> <<"%", "2", "6">>
         [] c = "+" -> <<"%", "2", "B">>
         [] c = "/" -> <<"%", "2", "F">>
         [] c = ":" -> <<"%", "3", "A">>
         [] c = "=" -> <<"%", "3", "D">>
         [] c = "?" -> <<"%", "3", "F">>
         [] OTHER -> <<"%", "x", "x">>

RECURSIVE encodeURIComponent(_)
encodeURIComponent(s) ==
  IF Len(s) = 0 THEN <<>> ELSE EncodeChar(s[1]) \o encodeURIComponent(Tail(s))

\* the characters of a string literal of the code
Chars_google_search == <<"h", "t", "t", "p", "s", ":", "/", "/", "w", "w", "w", ".", "g", "o", "o", "g", "l", "e", ".", "c", "o", "m", "/", "s", "e", "a", "r", "c", "h", "?", "q", "=">>
Chars_bing_search == <<"h", "t", "t", "p", "s", ":", "/", "/", "w", "w", "w", ".", "b", "i", "n", "g", ".", "c", "o", "m", "/", "s", "e", "a", "r", "c", "h", "?", "q", "=">>
Chars_ddg_search == <<"h", "t", "t", "p", "s", ":", "/", "/", "d", "u", "c", "k", "d", "u", "c", "k", "g", "o", ".", "c", "o", "m", "/", "h", "t", "m", "l", "/", "?", "q", "=">>
Chars_searx_search == <<"h", "t", "t", "p", "s", ":", "/", "/", "s", "e", "a", "r", "x", ".", "o", "r", "g", "/", "?", "q", "=">>
Chars_startpage_search == <<"h", "t", "t", "p", "s", ":", "/", "/", "w", "w", "w", ".", "s", "t", "a", "r", "t", "p", "a", "g", "e", ".", "c", "o", "m", "/", "s", "p", "/", "s", "e", "a", "r", "c", "h", "?", "q", "u", "e", "r", "y", "=">>
Chars_amp_language == <<"&", "l", "a", "n", "g", "u", "a", "g", "e", "=">>

\* buildSearchUrl called without its third argument: options = {}
NoUrlOptions == [language |-> Undef, region |-> Undef, safeSearch |-> Undef]

\* buildSearchUrl(query, engine, options = {})
buildSearchUrl(query, engine, options) ==
  LET encodedQuery == encodeURIComponent(query)
      language == IF options.language = Undef THEN Chars_en ELSE options.language.s
      region == IF options.region = Undef THEN Chars_us ELSE options.region.s
      safeSearch == IF options.safeSearch = Undef THEN TRUE ELSE Truthy(options.safeSearch)
  IN CASE engine = Chars_google ->
            Chars_google_search \o encodedQuery
              \o (IF language # Chars_en THEN <<"&", "h", "l", "=">> \o language ELSE <<>>)
              \o (IF region # Chars_us THEN <<"&", "g", "l", "=">> \o region ELSE <<>>)
              \o (IF ~safeSearch THEN <<"&", "s", "a", "f", "e", "=", "o", "f", "f">> ELSE <<>>)
       [] engine = Chars_bing ->
            Chars_bing_search \o encodedQuery
              \o (IF language # Chars_en
                  THEN <<"&", "s", "e", "t", "l", "a", "n", "g", "=">> \o language ELSE <<>>)
       [] engine = Chars_duckduckgo ->
            Chars_ddg_search \o encodedQuery
              \o (IF region # Chars_us THEN <<"&", "k", "l", "=">> \o region ELSE <<>>)
              \o (IF ~safeSearch
                  THEN <<"&", "s", "a", "f", "e", "_", "s", "e", "a", "r", "c", "h", "=", "-", "1">>
                  ELSE <<>>)
       [] engine = Chars_searx ->
            Chars_searx_search \o encodedQuery \o Chars_amp_language \o language
       [] engine = Chars_startpage ->
            Chars_startpage_search \o encodedQuery \o Chars_amp_language \o language
       [] OTHER -> Chars_ddg_search \o encodedQuery

\* search(query, engine, maxResults) up to the fetch: the arguments are
\* validated again
searchBegin(query, engine, maxResults) ==
  LET validatedQuery == validateQuery(Str(query))
      validatedEngine == validateSearchEngine(Str(engine))
      validatedMaxResults == validateMaxResults(Num(maxResults))
  IN IF ~validatedQuery.ok THEN validatedQuery
     ELSE IF ~validatedEngine.ok THEN validatedEngine
     ELSE IF ~validatedMaxResults.ok THEN validatedMaxResults
     ELSE Ok([query |-> validatedQuery.v, engine |-> validatedEngine.v,
              maxResults |-> validatedMaxResults.v])

\* const searchUrl = this.buildSearchUrl(validatedQuery, validatedEngine), for
\* the validated arguments b of a search
searchUrl(b) == buildSearchUrl(b.v.query, b.v.engine, NoUrlOptions)

\* HttpSearchService.search once fetchWithCurl has settled
httpSearchEnd(outcome, engine, maxResults) ==
  IF outcome.ok
  THEN Ok(parseSearchResults(outcome.html, engine, maxResults))
  ELSE Throw(Error("Search failed: " \o outcome.message))

\* BrowserSearchService.search once the page has loaded or failed to
browserSearchEnd(outcome, engine, maxResults) ==
  IF IsOutside(outcome) THEN Throw(Error(outcome.message))
  ELSE IF ~outcome.ok
  THEN Throw(Error("Browser search failed: " \o outcome.message))
  ELSE IF ~SelectorMatches(outcome.html, getResultSelector(engine))
  THEN Throw(Error("Browser search failed: page.waitForSelector: Timeout 10000ms exceeded."))
  ELSE Ok(parseSearchResults(outcome.html, engine, maxResults))

searchEnd(v, outcome, engine, maxResults) ==
  IF v = "browser" THEN browserSearchEnd(outcome, engine, maxResults)
  ELSE httpSearchEnd(outcome, engine, maxResults)

\* $('body').text().replace(/\s+/g, ' ').trim() of a page of containers
RECURSIVE BodyText(_)
BodyText(doc) ==
  IF Len(doc) = 0 THEN <<>>
  ELSE LET first == trim(doc[1].title)
           rest == BodyText(Tail(doc))
       IN IF Len(first) = 0 THEN rest
          ELSE IF Len(rest) = 0 THEN first
          ELSE first \o <<" ">> \o rest

\* extractContentFromHtml, for a page without head elements and without
\* article containers
extractContentFromHtml(html, url, options) ==
  LET text == IF options.contentType = Chars_text_only THEN BodyText(html)
              ELSE substring0(BodyText(html), MAX_CONTENT_LENGTH)
      metadata == Obj(<<"title", "description", "keywords", "author",
                        "canonical", "language", "published">>,
                      [i \in 1..7 |-> Str(<<>>)])
  IN IF options.extractMetadata
     THEN Obj(<<"url", "content", "metadata">>, <<Str(url), Str(text), metadata>>)
     ELSE Obj(<<"url", "content">>, <<Str(url), Str(text)>>)

\* extractContent once the fetch has settled
extractEnd(v, outcome, url, options) ==
  IF outcome.ok THEN Ok(extractContentFromHtml(outcome.html, url, options))
  ELSE IF IsOutside(outcome) THEN Throw(Error(outcome.message))
  ELSE IF v = "browser"
  THEN Throw(Error("Browser content extraction failed: " \o outcome.message))
  ELSE Throw(Error("Content extraction failed: " \o outcome.message))

-----------------------------------------------------------------------------
(* Requests *)

NoArgs ==
  [t |-> "object", query |-> Undef, engine |-> Undef, max_results |-> Undef,
   language |-> Undef, region |-> Undef, safe_search |-> Undef,
   use_cache |-> Undef, queries |-> Undef, max_results_per_query |-> Undef,
   url |-> Undef, content_type |-> Undef, extract_metadata |-> Undef,
   domain |-> Undef]

\* a tools/call without arguments
ArgsUndefined == [NoArgs EXCEPT !.t = "undefined"]

NoOptions ==
  [query |-> <<>>, engine |-> <<>>, maxResults |-> 0, language |-> <<>>,
   region |-> <<>>, safeSearch |-> TRUE, useCache |-> FALSE, url |-> <<>>,
   contentType |-> <<>>, extractMetadata |-> FALSE, domain |-> <<>>]

\* history of a request: how often its handler was entered, ran its
\* validation, read and wrote the cache, started a fetch, threw into the
\* catch block of the dispatcher and was answered; which of its fetches
\* succeeded and failed; and the URLs of the searches it started
ZeroHistory ==
  [handler |-> 0, validated |-> 0, cacheReads |-> 0, cacheWrites |-> 0,
   fetches |-> 0, thrown |-> 0, responses |-> 0, succeeded |-> {}, failed |-> {},
   urls |-> <<>>]

NewReq ==
  [pc |-> "new", name |-> "", args |-> NoArgs, options |-> NoOptions,
   tasks |-> <<>>, stage |-> 0, analysis |-> Null, resp |-> NoResp,
   g |-> ZeroHistory]

\* one awaited search or fetch of a request
Task(query) == [query |-> query, state |-> "fetching", entry |-> Null]
Settled(query, entry) == [query |-> query, state |-> "settled", entry |-> entry]

\* the response is sent
Respond(q, resp) ==
  [q EXCEPT !.pc = "done", !.resp = resp, !.g.responses = @ + 1]

\* the first failure among validation results, or the last result
RECURSIVE FirstFailure(_)
FirstFailure(rs) ==
  IF Len(rs) = 1 \/ ~rs[1].ok THEN rs[1] ELSE FirstFailure(Tail(rs))

\* the options object of EnhancedServer.handleWebSearch
webSearchValidated(args, query, engine, maxResults, language, region) ==
  IF ~FirstFailure(<<query, engine, maxResults, language, region>>).ok
  THEN FirstFailure(<<query, engine, maxResults, language, region>>)
  ELSE Ok([NoOptions EXCEPT
             !.query = query.v, !.engine = engine.v,
             !.maxResults = maxResults.v, !.language = language.v,
             !.region = region.v,
             !.safeSearch = validateBoolean(args.safe_search, TRUE),
             !.useCache = validateBoolean(args.use_cache, TRUE)])

webSearchOptions(args) ==
  IF args.t = "undefined" THEN Throw(TypeError)
  ELSE webSearchValidated(
         args,
         validateQuery(args.query),
         validateSearchEngine(OrElse(args.engine, Str(Chars_duckduckgo))),
         validateMaxResults(args.max_results),
         validateLanguage(args.language),
         validateRegion(args.region))

\* SharedValidation.validateSearchArgs: no use_cache argument
withoutCache(options) ==
  IF ~options.ok THEN options
  ELSE Ok([options.v EXCEPT !.useCache = FALSE])

validateSearchArgs(args) == withoutCache(webSearchOptions(args))

\* SharedValidation.validateContentExtractionArgs and the options object of
\* EnhancedServer.handleContentExtraction
contentExtractionValidated(args, url, contentType) ==
  IF ~FirstFailure(<<url, contentType>>).ok
  THEN FirstFailure(<<url, contentType>>)
  ELSE Ok([NoOptions EXCEPT
             !.url = url.v, !.contentType = contentType.v,
             !.extractMetadata = validateBoolean(args.extract_metadata, TRUE)])

validateContentExtractionArgs(args) ==
  IF args.t = "undefined" THEN Throw(TypeError)
  ELSE contentExtractionValidated(args, validateUrl(args.url),
                                  validateContentType(args.content_type))

\* the cache key of handleWebSearch
webSearchKey(options) ==
  generateKey(Chars_search,
              <<Str(options.engine), Str(options.query), Num(options.maxResults),
                Str(options.language), Str(options.region)>>)

\* the cache key of a handleBulkSearch task
bulkSearchKey(options, query) ==
  generateKey(Chars_search,
              <<Str(options.engine), Str(query), Num(options.maxResults)>>)

-----------------------------------------------------------------------------
(* The tool handlers.  A handler runs from its call to its first await     *)
(* (q: the request, c: the cache store, t: the time); its continuation     *)
(* runs when the awaited fetch settles.  Both give the request, the store  *)
(* and how control left the handler.                                       *)

Step(q, c, out) == [q |-> q, c |-> c, out |-> out]

\* the search of handleWebSearch is started, or its validation throws
handleWebSearchSearch(q, c, options, b) ==
  IF ~b.ok THEN Step(q, c, Raise(b.err))
  ELSE Step([q EXCEPT !.tasks = <<Task(options.query)>>, !.g.fetches = @ + 1,
                      !.g.urls = Append(@, searchUrl(b))],
            c, Await)

\* a lookup that does not ask options.useCache
handleWebSearchCached_AlwaysReads(q, c, options, got) ==
  IF Truthy(got.ret)
  THEN Step([q EXCEPT !.g.cacheReads = @ + 1], got.store,
            Return(createSuccessResult(Spread(got.ret, "cached", Bool(TRUE)))))
  ELSE handleWebSearchSearch([q EXCEPT !.g.cacheReads = @ + 1], got.store, options,
         searchBegin(options.query, options.engine, options.maxResults))

\* if (options.useCache) { const cached = this.cache.get(cacheKey); ... }
handleWebSearchCached(q, c, options, got) ==
  IF ~options.useCache
  THEN handleWebSearchSearch(q, c, options,
         searchBegin(options.query, options.engine, options.maxResults))
  ELSE IF Truthy(got.ret)
  THEN Step([q EXCEPT !.g.cacheReads = @ + 1], got.store,
            Return(createSuccessResult(Spread(got.ret, "cached", Bool(TRUE)))))
  ELSE handleWebSearchSearch([q EXCEPT !.g.cacheReads = @ + 1], got.store, options,
         searchBegin(options.query, options.engine, options.maxResults))

\* the statements of handleWebSearch after the options object
handleWebSearchValidated_CacheFirst(q, c, t, v) ==
  IF ~v.ok
  THEN Step([q EXCEPT !.g.cacheReads = @ + 1], c, Raise(v.err))
  ELSE handleWebSearchCached([q EXCEPT !.options = v.v], c, v.v,
                             CacheGet(c, webSearchKey(v.v), t))

handleWebSearchValidated(q, c, t, v) ==
  IF ~v.ok THEN Step(q, c, Raise(v.err))
  ELSE handleWebSearchCached([q EXCEPT !.options = v.v], c, v.v,
                             CacheGet(c, webSearchKey(v.v), t))

\* EnhancedServer.handleWebSearch, to the await of searchService.search
handleWebSearch(q, c, t) ==
  handleWebSearchValidated([q EXCEPT !.g.validated = @ + 1], c, t,
                           webSearchOptions(q.args))

\* a handler that remembers a failed search as a search without results
handleWebSearchSearched_StoresFailure(q, c, t, options, r) ==
  IF ~r.ok
  THEN Step([q EXCEPT !.tasks[1] = Settled(options.query, Null)],
            IF options.useCache
            THEN CacheSet(c, webSearchKey(options), Arr(<<>>), t) ELSE c,
            Raise(r.err))
  ELSE Step([q EXCEPT !.tasks[1] = Settled(options.query, Arr(r.v)),
                      !.g.cacheWrites = @ + (IF options.useCache THEN 1 ELSE 0)],
            IF options.useCache
            THEN CacheSet(c, webSearchKey(options), Arr(r.v), t) ELSE c,
            Return(createSuccessResult(Arr(r.v))))

\* EnhancedServer.handleWebSearch, from the await on
handleWebSearchSearched(q, c, t, options, r) ==
  IF ~r.ok
  THEN Step([q EXCEPT !.tasks[1] = Settled(options.query, Null)], c, Raise(r.err))
  ELSE Step([q EXCEPT !.tasks[1] = Settled(options.query, Arr(r.v)),
                      !.g.cacheWrites = @ + (IF options.useCache THEN 1 ELSE 0)],
            IF options.useCache
            THEN CacheSet(c, webSearchKey(options), Arr(r.v), t) ELSE c,
            Return(createSuccessResult(Arr(r.v))))

handleWebSearchResume(q, c, t, outcome) ==
  handleWebSearchSearched(q, c, t, q.options,
    httpSearchEnd(outcome, q.options.engine, q.options.maxResults))

\* BrowserServer.handleWebSearch and FallbackServer.handleWebSearch
sharedHandleWebSearchValidated(q, c, v) ==
  IF ~v.ok THEN Step(q, c, Raise(v.err))
  ELSE handleWebSearchSearch([q EXCEPT !.options = v.v], c, v.v,
         searchBegin(v.v.query, v.v.engine, v.v.maxResults))

sharedHandleWebSearch(q, c, t) ==
  sharedHandleWebSearchValidated([q EXCEPT !.g.validated = @ + 1], c,
                                 validateSearchArgs(q.args))

sharedHandleWebSearchSearched(q, c, options, r) ==
  IF ~r.ok
  THEN Step([q EXCEPT !.tasks[1] = Settled(options.query, Null)], c, Raise(r.err))
  ELSE Step([q EXCEPT !.tasks[1] = Settled(options.query, Arr(r.v))], c,
            Return(sharedCreateSuccessResult(Arr(r.v))))

sharedHandleWebSearchResume(v, q, c, t, outcome) ==
  sharedHandleWebSearchSearched(q, c, q.options,
    searchEnd(v, outcome, q.options.engine, q.options.maxResults))

\* handleContentExtraction, handlePageVisit, handlePageFetch
handleContentExtractionFetch(q, c, options, validatedUrl) ==
  IF ~validatedUrl.ok THEN Step(q, c, Raise(validatedUrl.err))
  ELSE Step([q EXCEPT !.options = options, !.tasks = <<Task(validatedUrl.v)>>,
                      !.g.fetches = @ + 1],
            c, Await)

handleContentExtractionValidated(q, c, v) ==
  IF ~v.ok THEN Step(q, c, Raise(v.err))
  ELSE handleContentExtractionFetch(q, c, v.v, validateUrl(Str(v.v.url)))

handleContentExtraction(q, c, t) ==
  handleContentExtractionValidated([q EXCEPT !.g.validated = @ + 1], c,
                                   validateContentExtractionArgs(q.args))

handleContentExtractionExtracted(v, q, c, r) ==
  IF ~r.ok
  THEN Step([q EXCEPT !.tasks[1] = Settled(q.tasks[1].query, Null)], c, Raise(r.err))
  ELSE Step([q EXCEPT !.tasks[1] = Settled(q.tasks[1].query, r.v)], c,
            Return(IF v = "enhanced" THEN createSuccessResult(r.v)
                   ELSE sharedCreateSuccessResult(r.v)))

handleContentExtractionResume(v, q, c, t, outcome) ==
  handleContentExtractionExtracted(v, q, c,
    extractEnd(v, outcome, q.tasks[1].query, q.options))

\* the validated arguments of EnhancedServer.handleBulkSearch
bulkValidated(args, queries, engine, maxResultsPerQuery) ==
  IF ~FirstFailure(<<queries, engine, maxResultsPerQuery>>).ok
  THEN FirstFailure(<<queries, engine, maxResultsPerQuery>>)
  ELSE Ok([queries |-> queries.v,
           options |-> [NoOptions EXCEPT
                          !.engine = engine.v,
                          !.maxResults = maxResultsPerQuery.v,
                          !.useCache = validateBoolean(args.use_cache, TRUE)]])

bulkOptions(args) ==
  IF args.t = "undefined" THEN Throw(TypeError)
  ELSE bulkValidated(
         args,
         validateQueries(args.queries),
         validateSearchEngine(OrElse(args.engine, Str(Chars_duckduckgo))),
         validateMaxResults(OrElse(args.max_results_per_query,
                                   Num(DefaultBulkMaxResults))))

\* the entry of a query whose search threw
ErrorEntry(query, message) ==
  Obj(<<"query", "error", "results">>, <<Str(query), Str(<<message>>), Arr(<<>>)>>)

\* one task of handleBulkSearch, to its await: the task, the store, and
\* whether the cache was read and a fetch started, of which URLs
BulkTask(task, c, reads, fetches, urls) ==
  [task |-> task, c |-> c, reads |-> reads, fetches |-> fetches, urls |-> urls]

bulkTaskSearch(query, c, reads, b) ==
  IF ~b.ok
  THEN BulkTask(Settled(query, ErrorEntry(query, b.err.message)), c, reads, 0, <<>>)
  ELSE BulkTask(Task(query), c, reads, 1, <<searchUrl(b)>>)

bulkTaskCached(options, query, c, got) ==
  IF ~options.useCache
  THEN bulkTaskSearch(query, c, 0,
                      searchBegin(query, options.engine, options.maxResults))
  ELSE IF Truthy(got.ret)
  THEN BulkTask(Settled(query, Obj(<<"query", "results", "cached">>,
                                   <<Str(query), got.ret, Bool(TRUE)>>)),
                got.store, 1, 0, <<>>)
  ELSE bulkTaskSearch(query, got.store, 1,
                      searchBegin(query, options.engine, options.maxResults))

bulkTaskBegin(options, query, c, t) ==
  bulkTaskCached(options, query, c, CacheGet(c, bulkSearchKey(options, query), t))

\* queries.map(async (query) => ...): every task runs to its await, in order
RECURSIVE bulkBegin(_, _, _, _, _)
RECURSIVE bulkBegun(_, _, _, _, _)
\* DEFAULT_CONFIG.MAX_CONCURRENT
MAX_CONCURRENT == 5

\* a map that starts at most MAX_CONCURRENT searches and queues the others
bulkBegun_Capped(options, queries, q, t, b) ==
  IF b.fetches = 1 /\ q.g.fetches >= MAX_CONCURRENT
  THEN bulkBegin(options, Tail(queries),
                 [q EXCEPT !.tasks = Append(@, [b.task EXCEPT !.state = "queued"]),
                           !.g.cacheReads = @ + b.reads],
                 b.c, t)
  ELSE bulkBegin(options, Tail(queries),
                 [q EXCEPT !.tasks = Append(@, b.task),
                           !.g.cacheReads = @ + b.reads,
                           !.g.fetches = @ + b.fetches,
                           !.g.urls = @ \o b.urls],
                 b.c, t)

bulkBegin(options, queries, q, c, t) ==
  IF Len(queries) = 0 THEN Step(q, c, Await)
  ELSE bulkBegun(options, queries, q, t, bulkTaskBegin(options, queries[1], c, t))

bulkBegun(options, queries, q, t, b) ==
  bulkBegin(options, Tail(queries),
            [q EXCEPT !.tasks = Append(@, b.task),
                      !.g.cacheReads = @ + b.reads,
                      !.g.fetches = @ + b.fetches,
                      !.g.urls = @ \o b.urls],
            b.c, t)

AllSettled(tasks) == \A i \in 1..Len(tasks) : tasks[i].state = "settled"

\* await Promise.all(promises); return this.createSuccessResult(results)
bulkJoin(s) ==
  IF AllSettled(s.q.tasks)
  THEN Step(s.q, s.c,
            Return(createSuccessResult(
                     Arr([i \in 1..Len(s.q.tasks) |-> s.q.tasks[i].entry]))))
  ELSE Step(s.q, s.c, Await)

\* EnhancedServer.handleBulkSearch, to the await of Promise.all
handleBulkSearchValidated(q, c, t, v) ==
  IF ~v.ok THEN Step(q, c, Raise(v.err))
  ELSE bulkJoin(bulkBegin(v.v.options, v.v.queries,
                          [q EXCEPT !.options = v.v.options], c, t))

handleBulkSearch(q, c, t) ==
  handleBulkSearchValidated([q EXCEPT !.g.validated = @ + 1], c, t,
                            bulkOptions(q.args))

\* task i of handleBulkSearch, from its await on, and Promise.all
handleBulkSearchSearched_FailFast(q, c, t, i, query, r) ==
  IF ~r.ok
  THEN Step([q EXCEPT !.tasks[i] = Settled(query, Null)], c, Raise(r.err))
  ELSE bulkJoin(Step([q EXCEPT !.tasks[i] =
                                 Settled(query, Obj(<<"query", "results">>,
                                                    <<Str(query), Arr(r.v)>>))],
                     c, Await))

handleBulkSearchSearched(q, c, t, i, query, r) ==
  IF ~r.ok
  THEN bulkJoin(Step([q EXCEPT !.tasks[i] =
                                 Settled(query, ErrorEntry(query, r.err.message))],
                     c, Await))
  ELSE bulkJoin(Step([q EXCEPT !.tasks[i] =
                                 Settled(query, Obj(<<"query", "results">>,
                                                    <<Str(query), Arr(r.v)>>)),
                               !.g.cacheWrites =
                                 @ + (IF q.options.useCache THEN 1 ELSE 0)],
                     IF q.options.useCache
                     THEN CacheSet(c, bulkSearchKey(q.options, query), Arr(r.v), t)
                     ELSE c,
                     Await))

handleBulkSearchResume(q, c, t, i, outcome) ==
  handleBulkSearchSearched(q, c, t, i, q.tasks[i].query,
    httpSearchEnd(outcome, q.options.engine, q.options.maxResults))

\* o[key] = val
ObjSet(o, key, val) ==
  IF \E i \in 1..Len(o.keys) : o.keys[i] = key
  THEN [o EXCEPT !.vals = [i \in 1..Len(o.keys) |->
                             IF o.keys[i] = key THEN val ELSE o.vals[i]]]
  ELSE Obj(Append(o.keys, key), Append(o.vals, val))

\* o[key], for a key o has
ObjGet(o, key) == o.vals[CHOOSE i \in 1..Len(o.keys) : o.keys[i] = key]

ObjHas(o, key) == \E i \in 1..Len(o.keys) : o.keys[i] = key

COMMON_ENDPOINTS ==
  << <<"/", "r", "o", "b", "o", "t", "s", ".", "t", "x", "t">>,
     <<"/", "s", "i", "t", "e", "m", "a", "p", ".", "x", "m", "l">>,
     <<"/", ".", "w", "e", "l", "l", "-", "k", "n", "o", "w", "n", "/",
       "s", "e", "c", "u", "r", "i", "t", "y", ".", "t", "x", "t">> >>

\* the property name of an endpoint
EndpointName(i) ==
  CASE i = 1 -> "/robots.txt"
    [] i = 2 -> "/sitemap.xml"
    [] OTHER -> "/.well-known/security.txt"

HomeUrl(domain) == Chars_https \o <<":", "/", "/">> \o domain

\* analysis.endpoints[endpoint] = status
SetEndpoint(analysis, k, status) ==
  ObjSet(analysis, "endpoints",
         ObjSet(ObjGet(analysis, "endpoints"), EndpointName(k), Str(status)))

\* the probe of endpoint k is started, or the loop over the endpoints ends
RECURSIVE probeEndpoints(_, _, _)
RECURSIVE probeEndpoint(_, _, _, _)
probeEndpoints(q, c, k) ==
  IF k > Len(COMMON_ENDPOINTS)
  THEN Step(q, c, Return(createSuccessResult(q.analysis)))
  ELSE probeEndpoint(q, c, k,
         validateUrl(Str(HomeUrl(q.options.domain) \o COMMON_ENDPOINTS[k])))

probeEndpoint(q, c, k, validatedUrl) ==
  IF ~validatedUrl.ok
  THEN probeEndpoints(
         [q EXCEPT !.analysis = SetEndpoint(@, k, <<"not_found">>)], c, k + 1)
  ELSE Step([q EXCEPT !.stage = k, !.tasks = Append(@, Task(validatedUrl.v)),
                      !.g.fetches = @ + 1],
            c, Await)

\* EnhancedServer.handleDomainAnalysis, to the await of the homepage fetch
handleDomainAnalysisHomepage(q, c, named, validatedUrl) ==
  IF ~validatedUrl.ok
  THEN Step(q, c, Return(createSuccessResult(
                           ObjSet(named, "error", Str(<<validatedUrl.err.message>>)))))
  ELSE Step([q EXCEPT !.analysis = named, !.tasks = <<Task(validatedUrl.v)>>,
                      !.g.fetches = @ + 1],
            c, Await)

handleDomainAnalysisUrl(q, c, domain, analysis, url) ==
  IF ~url.ok
  THEN Step(q, c, Return(createSuccessResult(
                           ObjSet(analysis, "error", Str(<<"Invalid URL">>)))))
  ELSE handleDomainAnalysisHomepage(
         q, c,
         ObjSet(ObjSet(analysis, "protocol", Str(url.protocol \o <<":">>)),
                "hostname", Str(url.host)),
         validateUrl(Str(HomeUrl(domain))))

handleDomainAnalysisValidated(q, c, domain) ==
  IF ~domain.ok THEN Step(q, c, Raise(domain.err))
  ELSE handleDomainAnalysisUrl(
         [q EXCEPT !.options = [NoOptions EXCEPT !.domain = domain.v,
                                                 !.extractMetadata = TRUE]],
         c, domain.v, Obj(<<"domain">>, <<Str(domain.v)>>),
         ParseURL(HomeUrl(domain.v)))

handleDomainAnalysis(q, c, t) ==
  IF q.args.t = "undefined"
  THEN Step([q EXCEPT !.g.validated = @ + 1], c, Raise(TypeError))
  ELSE handleDomainAnalysisValidated([q EXCEPT !.g.validated = @ + 1], c,
                                     validateDomain(q.args.domain))

\* a failed homepage fetch fails the tool call
handleDomainAnalysisExtracted_FailsCall(q, c, r) ==
  IF q.stage = 0 /\ ~r.ok THEN Step(q, c, Raise(r.err))
  ELSE probeEndpoints(q, c, Len(COMMON_ENDPOINTS) + 1)

\* a failed probe ends the loop over the endpoints
handleDomainAnalysisExtracted_ProbeAborts(q, c, r) ==
  IF ~r.ok
  THEN Step(q, c, Return(createSuccessResult(
              ObjSet(q.analysis, "error", Str(<<r.err.message>>)))))
  ELSE probeEndpoints(
         [q EXCEPT !.analysis =
            IF q.stage = 0 THEN ObjSet(@, "endpoints", Obj(<<>>, <<>>))
            ELSE SetEndpoint(@, q.stage, <<"exists">>)],
         c, q.stage + 1)

\* EnhancedServer.handleDomainAnalysis, from an await on
handleDomainAnalysisExtracted(q, c, r) ==
  IF q.stage = 0
  THEN IF ~r.ok
       THEN Step(q, c, Return(createSuccessResult(
                   ObjSet(q.analysis, "error", Str(<<r.err.message>>)))))
       ELSE probeEndpoints(
              [q EXCEPT !.analysis =
                 ObjSet(ObjSet(@, "homepage",
                               Obj(<<"title", "description", "hasSSL", "language">>,
                                   <<Str(<<>>), Str(<<>>), Bool(TRUE), Str(<<>>)>>)),
                        "endpoints", Obj(<<>>, <<>>))],
              c, 1)
  ELSE probeEndpoints(
         [q EXCEPT !.analysis =
            SetEndpoint(@, q.stage, IF r.ok THEN <<"exists">> ELSE <<"not_found">>)],
         c, q.stage + 1)

handleDomainAnalysisResume(q, c, t, outcome) ==
  handleDomainAnalysisExtracted(
    [q EXCEPT !.tasks[Len(q.tasks)] = Settled(q.tasks[Len(q.tasks)].query, Null)],
    c, extractEnd("enhanced", outcome, q.tasks[Len(q.tasks)].query, q.options))

\* EnhancedServer.handleCacheStats: the cache part of the statistics
handleCacheStats(q, c, t) ==
  Step(q, c, Return(createSuccessResult(
                      Obj(<<"cache">>,
                          <<Obj(<<"size", "ttl">>,
                                <<Num(Cardinality(DOMAIN c)), Num(CacheTTL)>>)>>))))

-----------------------------------------------------------------------------
(* The dispatcher: the CallToolRequestSchema handler of BaseMCPServer *)

\* handleToolCall of the three variants
handleToolCall(v, q, c, t) ==
  CASE v = "enhanced" /\ q.name = "search_web" -> handleWebSearch(q, c, t)
    [] v = "enhanced" /\ q.name = "extract_content" -> handleContentExtraction(q, c, t)
    [] v = "enhanced" /\ q.name = "bulk_search" -> handleBulkSearch(q, c, t)
    [] v = "enhanced" /\ q.name = "analyze_domain" -> handleDomainAnalysis(q, c, t)
    [] v = "enhanced" /\ q.name = "cache_stats" -> handleCacheStats(q, c, t)
    [] v = "browser" /\ q.name = "search_web" -> sharedHandleWebSearch(q, c, t)
    [] v = "browser" /\ q.name = "visit_page" -> handleContentExtraction(q, c, t)
    [] v = "fallback" /\ q.name = "search_web_fallback" -> sharedHandleWebSearch(q, c, t)
    [] v = "fallback" /\ q.name = "fetch_page" -> handleContentExtraction(q, c, t)
    [] OTHER -> Step(q, c, Raise(Error("Unknown tool: " \o q.name)))

\* the continuation of the handler that awaits task i
resumeToolCall(v, q, c, t, i, outcome) ==
  CASE v = "enhanced" /\ q.name = "search_web" -> handleWebSearchResume(q, c, t, outcome)
    [] v = "enhanced" /\ q.name = "bulk_search" -> handleBulkSearchResume(q, c, t, i, outcome)
    [] v = "enhanced" /\ q.name = "analyze_domain" -> handleDomainAnalysisResume(q, c, t, outcome)
    [] q.name \in {"extract_content", "visit_page", "fetch_page"} ->
         handleContentExtractionResume(v, q, c, t, outcome)
    [] OTHER -> sharedHandleWebSearchResume(v, q, c, t, outcome)

\* the handler returned, threw or awaits: try / catch of the request handler
Finish(s) ==
  [q |-> CASE s.out.kind = "return" -> Respond(s.q, s.out.result)
           [] s.out.kind = "throw" ->
                Respond([s.q EXCEPT !.g.thrown = @ + 1], CatchToolError(s.out.err))
           [] OTHER -> [s.q EXCEPT !.pc = "waiting"],
   c |-> s.c]

\* the request handler, to the first await
CallTool_NoLookup(v, q, c, t) ==
  Finish(handleToolCall(v, [q EXCEPT !.g.handler = @ + 1], c, t))

CallTool(v, q, c, t) ==
  IF q.name \notin getTools(v)
  THEN Finish(Step(q, c, Raise(createMCPError(METHOD_NOT_FOUND,
                                              "Unknown tool: " \o q.name))))
  ELSE Finish(handleToolCall(v, [q EXCEPT !.g.handler = @ + 1], c, t))

-----------------------------------------------------------------------------
(* The tools/call requests of the model *)

MaxReqs == 2

Args(changes) == [f \in DOMAIN NoArgs |-> IF f \in DOMAIN changes THEN changes[f] ELSE NoArgs[f]]

LongQuery == [i \in 1..(MaxQueryLength + 1) |-> "x"]

SearchArgs ==
  { Args([query |-> Str(Chars_cats)]),
    Args([query |-> Str(Chars_Cats_padded), max_results |-> Num(1)]),
    Args([query |-> Str(Chars_cats), use_cache |-> Bool(FALSE)]),
    Args([query |-> Str(Chars_cats), engine |-> Str(Chars_Google), max_results |-> Num(1)]),
    Args([query |-> Str(Chars_cats), engine |-> Str(Chars_startpage)]),
    Args([query |-> Str(Chars_blank)]),
    Args([query |-> Str(LongQuery)]),
    Args([query |-> Str(Chars_cats), engine |-> Str(Chars_yahoo)]),
    Args([query |-> Str(Chars_cats), max_results |-> Num(MAX_RESULTS + 1)]),
    Args([query |-> Str(Chars_cats), language |-> Str(Chars_english)]),
    NoArgs,
    ArgsUndefined }

BulkArgs ==
  { Args([queries |-> Arr(<<Str(Chars_cats), Str(Chars_dogs)>>)]),
    Args([queries |-> Arr(<<Str(Chars_dogs), Str(Chars_cats)>>),
          use_cache |-> Bool(FALSE)]),
    Args([queries |-> Arr(<<Str(Chars_cats)>>), max_results_per_query |-> Num(1)]),
    Args([queries |-> Arr(<<Str(Chars_cats), Str(Chars_blank)>>)]),
    Args([queries |-> Arr([i \in 1..(MaxQueries + 1) |-> Str(Chars_cats)])]),
    Args([queries |-> Str(Chars_cats)]),
    Args([queries |-> Arr(<<Str(Chars_cats)>>), max_results_per_query |-> Num(MAX_RESULTS + 1)]) }

Url_page == Chars_https \o <<":", "/", "/">> \o Chars_a_com \o <<"/", "p">>
Url_ftp == <<"f", "t", "p", ":", "/", "/">> \o Chars_a_com
Chars_not_a_domain ==
  <<"n", "o", "t", " ", "a", " ", "d", "o", "m", "a", "i", "n", "!", "!">>

ExtractArgs ==
  { Args([url |-> Str(Url_page)]),
    Args([url |-> Str(Url_ftp)]),
    Args([url |-> Str(Chars_not_a_domain)]),
    Args([url |-> Str(Url_page), content_type |-> Str(Chars_cats)]),
    NoArgs }

DomainArgs ==
  { Args([domain |-> Str(Chars_a_com)]),
    Args([domain |-> Str(Chars_not_a_domain)]),
    Args([domain |-> Str(<<>>)]) }

\* the calls a client makes: a tool name with arguments
Calls ==
  ({"search_web", "search_web_fallback"} \X SearchArgs)
    \cup ({"bulk_search"} \X BulkArgs)
    \cup ({"extract_content", "visit_page", "fetch_page"} \X ExtractArgs)
    \cup ({"analyze_domain"} \X DomainArgs)
    \cup ({"cache_stats", "no_such_tool"} \X {NoArgs, ArgsUndefined})

-----------------------------------------------------------------------------
(* The server *)

Variants == {"enhanced", "fallback", "browser"}

Pending == [state |-> "pending", value |-> "", reason |-> ""]

\* no fetchWithCurl call has been made
NoCurl ==
  [pc |-> "idle", n |-> 0, data |-> "", chunks |-> 0, errorData |-> "",
   promise |-> Pending, timer |-> "none", killed |-> FALSE, errored |-> FALSE]

\* a call of BrowserSearchService.search or extractContent: where it is, the
\* browser it got from ensureBrowser, what page.goto gave, and the history
\* of how many pages it opened and closed
NoBrowserCall ==
  [pc |-> "idle", kind |-> "", browser |-> 0, outcome |-> FetchFail(""),
   opened |-> 0, closed |-> 0]

\* this.browser is null (handle 0), no browser was launched, no page is open
NoBrowser ==
  [handle |-> 0, launched |-> 0, connected |-> {}, pages |-> {},
   calls |-> [r \in 1..MaxReqs |-> NoBrowserCall]]

\* the process after the constructor: the handlers are installed, nothing
\* was logged by them, cleanup() was never called
Running ==
  [state |-> "running", exitCode |-> -1, log |-> <<>>, fatal |-> "none",
   events |-> 0, cleanups |-> 0, cleaned |-> 0, closing |-> <<>>]

Alive == proc.state # "exited"

\* no function was applied
NotApplied == [f |-> "none", in |-> <<>>, out |-> <<>>]

Init ==
  /\ variant \in Variants
  /\ reqs = [r \in 1..MaxReqs |-> NewReq]
  /\ cache = EmptyStore
  /\ now = 0
  /\ timerOn = TRUE
  /\ lastSet = [k \in CacheKeys |-> NeverSet]
  /\ lastOp = NoOp
  /\ curl = NoCurl
  /\ browser = NoBrowser
  /\ proc = Running
  /\ fn = NotApplied

\* history: the fetch of task i of request q settled with outcome
Fetched(q, i, outcome) ==
  [q EXCEPT !.g.succeeded = IF outcome.ok THEN @ \cup {i} ELSE @,
            !.g.failed = IF outcome.ok THEN @ ELSE @ \cup {i}]

\* a step of the handler of request r leaves the request and the store as s
Handled(r, s) ==
  /\ reqs' = [reqs EXCEPT ![r] = s.q]
  /\ cache' = s.c

\* the request handler of tools/call runs for a request that arrives, to its
\* first await or its response
Dispatched(r, name, args) ==
  /\ Alive
  /\ reqs[r].pc = "new"
  /\ r > 1 => reqs[r - 1].pc # "new"
  /\ Handled(r, CallTool(variant, [reqs[r] EXCEPT !.name = name, !.args = args],
                          cache, now))
  /\ UNCHANGED <<variant, now, timerOn, lastSet, lastOp, curl, proc, fn>>

\* a tools/call request arrives
Call(r, name, args) ==
  /\ Dispatched(r, name, args)
  /\ UNCHANGED browser

\* the handler of request r resumes when the search or fetch that its task i
\* awaits has settled
Resumed(r, i, outcome) ==
  /\ Alive
  /\ reqs[r].pc = "waiting"
  /\ i \in 1..Len(reqs[r].tasks)
  /\ reqs[r].tasks[i].state = "fetching"
  /\ Handled(r, Finish(resumeToolCall(variant, Fetched(reqs[r], i, outcome),
                                      cache, now, i, outcome)))
  /\ UNCHANGED <<variant, now, timerOn, lastSet, lastOp, curl, proc, fn>>

\* the fetch that task i of request r awaits settles
FetchSettles(r, i, outcome) ==
  /\ Resumed(r, i, outcome)
  /\ UNCHANGED browser

\* time passes
Tick ==
  /\ now < MaxTime
  /\ now' = now + 1
  /\ UNCHANGED <<variant, reqs, cache, timerOn, lastSet, lastOp, curl, browser, proc, fn>>

\* the periodic sweep of the cache of the enhanced variant
Sweep ==
  /\ timerOn
  /\ variant = "enhanced"
  /\ cache' = CacheCleanup(cache, now)
  /\ UNCHANGED <<variant, reqs, now, timerOn, lastSet, lastOp, curl, browser, proc, fn>>

Next ==
  \/ \E r \in 1..MaxReqs : \E call \in Calls : Call(r, call[1], call[2])
  \/ \E r \in 1..MaxReqs : \E i \in 1..MaxQueries :
       \E outcome \in Outcomes(variant) : FetchSettles(r, i, outcome)
  \/ Tick
  \/ Sweep

Spec == Init /\ [][Next]_vars

-----------------------------------------------------------------------------
(* The cache on its own: any sequence of its operations *)

InitCache == Init /\ variant = "enhanced"

NextCache ==
  \/ \E k \in CacheKeys : \E v \in CacheValues : DoSet(k, v)
  \/ \E k \in CacheKeys : DoGet(k)
  \/ \E k \in CacheKeys : DoHas(k)
  \/ \E k \in CacheKeys : DoDelete(k)
  \/ DoClear
  \/ SweepTick
  \/ ClockAdvance

SpecCache == InitCache /\ [][NextCache]_vars

-----------------------------------------------------------------------------
(* HttpSearchService.fetchWithCurl: the child process, the listeners on    *)
(* it, the timer and the promise the caller awaits                         *)

\* at most this many chunks arrive on stdout and on stderr in one fetch
MaxChunks == 2
\* this many fetches are made, one after the other
MaxFetches == 2

Chunks == {"<p>", " "}

\* the exit codes curl.on('close') can give: 0, non-zero, and null for a
\* process ended by a signal
ExitCodes == {Num(0), Num(6)}
KilledExitCodes == ExitCodes \cup {Null}

\* resolve(value): a settled promise stays as it is
Resolve(promise, value) ==
  IF promise.state # "pending" THEN promise
  ELSE [state |-> "fulfilled", value |-> value, reason |-> ""]

\* reject(new Error(reason))
Reject_Overwrite(promise, reason) ==
  [state |-> "rejected", value |-> "", reason |-> reason]

Reject(promise, reason) ==
  IF promise.state # "pending" THEN promise
  ELSE [state |-> "rejected", value |-> "", reason |-> reason]

\* the close listener
CloseListener(c, code) ==
  IF code.t = "number" /\ code.n = 0
  THEN [c EXCEPT !.pc = "closed", !.promise = Resolve(@, c.data)]
  ELSE [c EXCEPT !.pc = "closed",
                 !.promise =
                   Reject(@, "curl failed with code "
                             \o (IF code.t = "number" THEN ToString(code.n)
                                 ELSE "null")
                             \o ": "
                             \o (IF c.errorData = "" THEN "Unknown error"
                                 ELSE c.errorData))]

\* the error listener
ErrorListener(c, message) ==
  [c EXCEPT !.errored = TRUE,
            !.promise = Reject(@, "Failed to execute curl: " \o message)]

\* the setTimeout callback: curl.kill(); reject(new Error('Request timeout'))
TimeoutCallback(c) ==
  [c EXCEPT !.timer = "fired",
            !.killed = (c.pc = "running"),
            !.promise = Reject(@, "Request timeout")]

\* fetchWithCurl(url): the executor spawns curl and sets the timer
Spawn ==
  /\ curl.pc = "idle" \/ (curl.pc = "closed" /\ curl.timer = "fired")
  /\ curl.n < MaxFetches
  /\ curl' = [NoCurl EXCEPT !.pc = "running", !.n = curl.n + 1, !.timer = "set"]
  /\ UNCHANGED <<variant, reqs, cache, now, timerOn, lastSet, lastOp, browser,
                 proc, fn>>

\* curl.stdout.on('data')
OnStdoutData(chunk) ==
  /\ curl.pc = "running"
  /\ curl.chunks < MaxChunks
  /\ curl' = [curl EXCEPT !.data = @ \o chunk, !.chunks = @ + 1]
  /\ UNCHANGED <<variant, reqs, cache, now, timerOn, lastSet, lastOp, browser,
                 proc, fn>>

\* curl.stderr.on('data')
OnStderrData ==
  /\ curl.pc = "running"
  /\ curl.errorData = ""
  /\ curl' = [curl EXCEPT !.errorData = "Could not resolve host"]
  /\ UNCHANGED <<variant, reqs, cache, now, timerOn, lastSet, lastOp, browser,
                 proc, fn>>

\* curl.on('close'): the process has ended and its streams are closed
OnClose(code) ==
  /\ curl.pc = "running"
  /\ code \in (IF curl.killed THEN KilledExitCodes ELSE ExitCodes)
  /\ curl' = CloseListener(curl, code)
  /\ UNCHANGED <<variant, reqs, cache, now, timerOn, lastSet, lastOp, browser,
                 proc, fn>>

\* curl.on('error'): the process could not be spawned
OnError ==
  /\ curl.pc = "running"
  /\ ~curl.errored
  /\ curl.chunks = 0 /\ curl.errorData = ""
  /\ curl' = ErrorListener(curl, "spawn curl ENOENT")
  /\ UNCHANGED <<variant, reqs, cache, now, timerOn, lastSet, lastOp, browser,
                 proc, fn>>

\* the timer set by the executor expires; nothing clears it
OnTimeout ==
  /\ curl.timer = "set"
  /\ curl' = TimeoutCallback(curl)
  /\ UNCHANGED <<variant, reqs, cache, now, timerOn, lastSet, lastOp, browser,
                 proc, fn>>

InitFetch == Init /\ variant = "fallback"

NextFetch ==
  \/ Spawn
  \/ \E chunk \in Chunks : OnStdoutData(chunk)
  \/ OnStderrData
  \/ \E code \in KilledExitCodes : OnClose(code)
  \/ OnError
  \/ OnTimeout

SpecFetch == InitFetch /\ [][NextFetch]_vars

\* the event loop runs a timer that is due
FairFetch == SpecFetch /\ WF_vars(OnTimeout)

-----------------------------------------------------------------------------
(* BrowserSearchService: the shared browser, and the page that every call  *)
(* of search and extractContent opens, uses and closes.  The call of       *)
(* request r is browser.calls[r]; a page is <<r, b>>: opened by call r on  *)
(* browser b.                                                              *)

\* at most this many signals and fatal events reach the process
MaxEvents == 2

BrowserCallOf(r) == browser.calls[r]
PageOf(r) == <<r, browser.calls[r].browser>>
PageAlive(r) == PageOf(r) \in browser.pages

\* the pages of a browser go with it
PagesWithout(pages, b) == {p \in pages : p[2] # b}

\* ensureBrowser up to its await: launch unless this.browser is connected
ensureBrowser(b, r, kind) ==
  IF b.handle = 0 \/ b.handle \notin b.connected
  THEN [b EXCEPT !.calls[r] = [NoBrowserCall EXCEPT !.pc = "launching", !.kind = kind]]
  ELSE [b EXCEPT !.calls[r] = [NoBrowserCall EXCEPT !.pc = "ensured", !.kind = kind,
                                                    !.browser = b.handle]]

\* a tools/call request arrives at the browser server: the handler runs up to
\* await this.ensureBrowser() of search or extractContent, or to its response
BrowserCall(r, name, args) ==
  /\ variant = "browser"
  /\ Dispatched(r, name, args)
  /\ browser' = IF reqs'[r].pc = "waiting"
                THEN ensureBrowser(browser, r,
                                   IF name = "search_web" THEN "search" ELSE "extract")
                ELSE browser

\* the call of request r fails before its try block
FailsOutside(r, outcome) ==
  /\ Resumed(r, 1, outcome)
  /\ browser' = [browser EXCEPT !.calls[r].pc = "done", !.calls[r].outcome = outcome]

\* chromium.launch settles: this.browser is the new browser, or the call fails
LaunchSettles(r, ok) ==
  /\ BrowserCallOf(r).pc = "launching"
  /\ IF ok
     THEN /\ Alive
          /\ browser' = [browser EXCEPT !.launched = @ + 1,
                                        !.handle = browser.launched + 1,
                                        !.connected = @ \cup {browser.launched + 1},
                                        !.calls[r].pc = "ensured",
                                        !.calls[r].browser = browser.launched + 1]
          /\ UNCHANGED <<variant, reqs, cache, now, timerOn, lastSet, lastOp, curl, proc, fn>>
     ELSE FailsOutside(r, LaunchFailed)

\* browser.newPage() settles: a page is open, or the browser is gone
NewPageSettles(r) ==
  /\ BrowserCallOf(r).pc = "ensured"
  /\ IF BrowserCallOf(r).browser \in browser.connected
     THEN /\ Alive
          /\ browser' = [browser EXCEPT !.pages = @ \cup {PageOf(r)},
                                        !.calls[r].pc = "configure",
                                        !.calls[r].opened = @ + 1]
          /\ UNCHANGED <<variant, reqs, cache, now, timerOn, lastSet, lastOp, curl, proc, fn>>
     ELSE FailsOutside(r, NewPageFailed)

\* a step that leaves the try block without reaching the finally block
PageStep_NoFinally(r, from, ok, to, outcome) ==
  /\ Alive
  /\ BrowserCallOf(r).pc = from
  /\ browser' = [browser EXCEPT !.calls[r].pc = IF ok THEN to ELSE "done",
                                !.calls[r].outcome = outcome]
  /\ UNCHANGED <<variant, reqs, cache, now, timerOn, lastSet, lastOp, curl, proc, fn>>

\* an awaited step inside the try block of call r settles: the call goes on
\* to the next step, or to the catch and finally blocks, where page.close()
\* is called
PageStep(r, from, ok, to, outcome) ==
  /\ Alive
  /\ BrowserCallOf(r).pc = from
  /\ browser' = [browser EXCEPT !.calls[r].pc = IF ok THEN to ELSE "closing",
                                !.calls[r].outcome = outcome]
  /\ UNCHANGED <<variant, reqs, cache, now, timerOn, lastSet, lastOp, curl, proc, fn>>

TargetClosed(method) == FetchFail(method \o ": Target page, context or browser has been closed")

\* configurePage settles
ConfigureSettles(r, ok) ==
  /\ ok => PageAlive(r)
  /\ PageStep(r, "configure", ok, "goto",
              IF ok THEN BrowserCallOf(r).outcome
              ELSE TargetClosed("page.setExtraHTTPHeaders"))

\* page.goto settles
GotoSettles(r, outcome) ==
  /\ outcome.ok => PageAlive(r)
  /\ PageStep(r, "goto", outcome.ok,
              IF BrowserCallOf(r).kind = "search" THEN "waitForSelector" ELSE "content",
              outcome)

\* page.waitForSelector settles, by a match or by its timeout
WaitForSelectorSettles(r) ==
  /\ BrowserCallOf(r).kind = "search"
  /\ PageStep(r, "waitForSelector",
              /\ PageAlive(r)
              /\ SelectorMatches(BrowserCallOf(r).outcome.html,
                                 getResultSelector(reqs[r].options.engine)),
              "content",
              IF PageAlive(r) THEN BrowserCallOf(r).outcome
              ELSE TargetClosed("page.waitForSelector"))

\* page.content settles; the document is parsed and page.close() is called
ContentSettles(r) ==
  /\ BrowserCallOf(r).pc = "content"
  /\ PageStep(r, "content", FALSE, "closing",
              IF PageAlive(r) THEN BrowserCallOf(r).outcome
              ELSE TargetClosed("page.content"))

\* page.close() settles and the call returns or throws to the handler
PageCloseSettles(r) ==
  /\ BrowserCallOf(r).pc = "closing"
  /\ Resumed(r, 1, BrowserCallOf(r).outcome)
  /\ browser' = [browser EXCEPT !.pages = @ \ {PageOf(r)},
                                !.calls[r].pc = "done",
                                !.calls[r].closed = @ + 1]

\* a browser crashes or is disconnected
BrowserDisconnects(b) ==
  /\ Alive
  /\ b \in browser.connected
  /\ browser' = [browser EXCEPT !.connected = @ \ {b},
                                !.pages = PagesWithout(@, b)]
  /\ UNCHANGED <<variant, reqs, cache, now, timerOn, lastSet, lastOp, curl, proc, fn>>

-----------------------------------------------------------------------------
(* The process: the handlers that setupErrorHandling and setupCleanup       *)
(* install, cleanup() of the variant, and process.exit                     *)

Signals == {"SIGINT", "SIGTERM", "SIGUSR2"}

Logged(p, line) == [p EXCEPT !.log = Append(@, line), !.events = @ + 1]

\* process.exit(code) in the finally callback, after cleanup() has settled
Exited(p, code, lines) ==
  [p EXCEPT !.state = "exited", !.exitCode = code, !.cleaned = @ + 1,
            !.log = @ \o lines]

\* the lines logged once cleanup() has settled
ShutdownLines(code) == IF code = 0 THEN <<"Shutdown complete">> ELSE <<>>

\* cleanup() is awaiting browser.close() of browser b, to exit with code
CleaningUp(p, b, code) ==
  [p EXCEPT !.state = "cleaning", !.cleanups = @ + 1,
            !.closing = Append(@, [browser |-> b, code |-> code])]

\* the variants whose cleanup() calls cacheService.destroy(): EnhancedServer
\* and OllamaServer
CacheOwners == {"enhanced", "ollama"}

\* a cleanup() that leaves the cache service alone
Shutdown_NoDestroy(p, code) ==
  /\ proc' = Exited([p EXCEPT !.cleanups = @ + 1], code, ShutdownLines(code))
  /\ UNCHANGED <<variant, reqs, cache, now, timerOn, lastSet, lastOp, curl, browser, fn>>

\* this.cleanup().finally(() => process.exit(code)) up to its first await
\* on something that is not settled yet: only BrowserSearchService.cleanup
\* awaits one, browser.close(), and only if this.browser is set
Shutdown(p, code) ==
  /\ proc' = IF variant = "browser" /\ browser.handle # 0
             THEN CleaningUp(p, browser.handle, code)
             ELSE Exited([p EXCEPT !.cleanups = @ + 1], code, ShutdownLines(code))
  /\ timerOn' = IF variant \in CacheOwners THEN FALSE ELSE timerOn
  /\ cache' = IF variant \in CacheOwners THEN EmptyStore ELSE cache
  /\ UNCHANGED <<variant, reqs, now, lastSet, lastOp, curl, browser, fn>>

\* the handler of a termination signal
Signal(sig) ==
  /\ Alive
  /\ proc.events < MaxEvents
  /\ Shutdown(Logged(proc, "Received " \o sig \o ", shutting down gracefully..."), 0)

\* the handler of 'uncaughtException'
UncaughtException ==
  /\ Alive
  /\ proc.events < MaxEvents
  /\ Shutdown([Logged(proc, "Uncaught exception") EXCEPT !.fatal = "uncaughtException"], 1)

\* the handler of 'unhandledRejection'
UnhandledRejection ==
  /\ Alive
  /\ proc.events < MaxEvents
  /\ proc' = [Logged(proc, "Unhandled rejection") EXCEPT !.fatal = "unhandledRejection"]
  /\ UNCHANGED <<variant, reqs, cache, now, timerOn, lastSet, lastOp, curl, browser, fn>>

\* browser.close() of the oldest cleanup() settles: this.browser = null, the
\* base cleanup, then the finally callback exits
BrowserCloseSettles ==
  /\ proc.state = "cleaning"
  /\ browser' = [browser EXCEPT !.handle = 0,
                                !.connected = @ \ {Head(proc.closing).browser},
                                !.pages = PagesWithout(@, Head(proc.closing).browser)]
  /\ proc' = Exited([proc EXCEPT !.closing = Tail(@)], Head(proc.closing).code,
                    ShutdownLines(Head(proc.closing).code))
  /\ UNCHANGED <<variant, reqs, cache, now, timerOn, lastSet, lastOp, curl, fn>>

\* the calls that clients make while the process lives
ProcessCalls ==
  { <<"search_web", Args([query |-> Str(Chars_cats)])>>,
    <<"search_web", Args([query |-> Str(Chars_blank)])>>,
    <<"visit_page", Args([url |-> Str(Url_page)])>>,
    <<"search_web_fallback", Args([query |-> Str(Chars_cats)])>>,
    <<"extract_content", Args([url |-> Str(Url_page)])>> }

NextProcess ==
  \/ \E r \in 1..MaxReqs : \E call \in ProcessCalls :
       variant # "browser" /\ Call(r, call[1], call[2])
  \/ \E r \in 1..MaxReqs : \E outcome \in HttpOutcomes :
       variant # "browser" /\ FetchSettles(r, 1, outcome)
  \/ \E r \in 1..MaxReqs : \E call \in ProcessCalls : BrowserCall(r, call[1], call[2])
  \/ \E r \in 1..MaxReqs : \E ok \in BOOLEAN : LaunchSettles(r, ok)
  \/ \E r \in 1..MaxReqs : NewPageSettles(r)
  \/ \E r \in 1..MaxReqs : \E ok \in BOOLEAN : ConfigureSettles(r, ok)
  \/ \E r \in 1..MaxReqs : \E outcome \in PageOutcomes : GotoSettles(r, outcome)
  \/ \E r \in 1..MaxReqs : WaitForSelectorSettles(r)
  \/ \E r \in 1..MaxReqs : ContentSettles(r)
  \/ \E r \in 1..MaxReqs : PageCloseSettles(r)
  \/ \E b \in 1..MaxReqs : BrowserDisconnects(b)
  \/ \E sig \in Signals : Signal(sig)
  \/ UncaughtException
  \/ UnhandledRejection
  \/ BrowserCloseSettles

SpecProcess == Init /\ [][NextProcess]_vars

-----------------------------------------------------------------------------
(* One bulk_search call of the enhanced server with up to MaxQueries       *)
(* queries, and the searches of its tasks settling in any order            *)

InitBulk == Init /\ variant = "enhanced"

\* the i-th query of a call
BulkQuery(i) == <<"q">> \o NumChars(i)

\* the arguments of a call with n queries that differ
BulkOf(n) == Args([queries |-> Arr([i \in 1..n |-> Str(BulkQuery(i))])])

\* one query, more than MAX_CONCURRENT, and as many as a call may have
BulkSizes == {1, MAX_CONCURRENT + 1, MaxQueries}

BulkOutcomes == {FetchOk(DocResults), FetchFail("Request timeout")}

NextBulk ==
  \/ \E n \in BulkSizes : Call(1, "bulk_search", BulkOf(n))
  \/ \E i \in 1..MaxQueries : \E outcome \in BulkOutcomes : FetchSettles(1, i, outcome)

SpecBulk == InitBulk /\ [][NextBulk]_vars

-----------------------------------------------------------------------------
(* The cache service over the life of a server that owns one: run(), the   *)
(* cache operations of the handlers, the sweep, and the shutdown paths     *)

\* the process between the construction of the server and the end of run()
Starting == [Running EXCEPT !.state = "starting"]

InitShutdown ==
  /\ variant \in CacheOwners
  /\ reqs = [r \in 1..MaxReqs |-> NewReq]
  /\ cache = EmptyStore
  /\ now = 0
  /\ timerOn = TRUE
  /\ lastSet = [k \in CacheKeys |-> NeverSet]
  /\ lastOp = NoOp
  /\ curl = NoCurl
  /\ browser = NoBrowser
  /\ proc = Starting
  /\ fn = NotApplied

\* run(): initialize() and server.connect(transport) have settled
StartSucceeds ==
  /\ proc.state = "starting"
  /\ proc' = [proc EXCEPT !.state = "running", !.log = Append(@, "MCP Server running on stdio")]
  /\ UNCHANGED <<variant, reqs, cache, now, timerOn, lastSet, lastOp, curl, browser, fn>>

\* run(): initialize() or server.connect(transport) has rejected; the catch
\* block awaits cleanup() and rethrows, and the caller logs the error
StartFails ==
  /\ proc.state = "starting"
  /\ proc' = [proc EXCEPT !.state = "failed", !.cleanups = @ + 1,
                          !.log = Append(@, "Failed to start MCP server")]
  /\ timerOn' = IF variant \in CacheOwners THEN FALSE ELSE timerOn
  /\ cache' = IF variant \in CacheOwners THEN EmptyStore ELSE cache
  /\ UNCHANGED <<variant, reqs, now, lastSet, lastOp, curl, browser, fn>>

\* a handler of the running server stores a result
HandlerSets(k, v) ==
  /\ proc.state = "running"
  /\ DoSet(k, v)

\* a handler of the running server looks a key up
HandlerGets(k) ==
  /\ proc.state = "running"
  /\ DoGet(k)

\* the interval of the sweep passes while the process lives
IntervalElapses ==
  /\ Alive
  /\ SweepTick

\* time passes while the process lives
TimePasses ==
  /\ Alive
  /\ ClockAdvance

NextShutdown ==
  \/ StartSucceeds
  \/ StartFails
  \/ \E k \in CacheKeys : \E v \in CacheValues : HandlerSets(k, v)
  \/ \E k \in CacheKeys : HandlerGets(k)
  \/ IntervalElapses
  \/ TimePasses
  \/ \E sig \in Signals : Signal(sig)
  \/ UncaughtException
  \/ UnhandledRejection

SpecShutdown == InitShutdown /\ [][NextShutdown]_vars

-----------------------------------------------------------------------------
(* Functions of the code applied to inputs.  A text that may be thousands  *)
(* of characters long is a sequence of runs: n times the character c.      *)

Run(c, n) == [c |-> c, n |-> n]
TextOf(c, n) == IF n = 0 THEN <<>> ELSE <<Run(c, n)>>
Blank(run) == run.c \in WhiteSpace

\* text.length
RECURSIVE TextLength(_)
TextLength(t) == IF Len(t) = 0 THEN 0 ELSE t[1].n + TextLength(Tail(t))

RECURSIVE DropBlank(_)
DropBlank(t) == IF Len(t) > 0 /\ Blank(t[1]) THEN DropBlank(Tail(t)) ELSE t

RECURSIVE DropBlankEnd(_)
DropBlankEnd(t) ==
  IF Len(t) > 0 /\ Blank(t[Len(t)]) THEN DropBlankEnd(SubSeq(t, 1, Len(t) - 1)) ELSE t

\* text.replace(/\s+/g, ' ')
RECURSIVE CollapseSpace(_)
CollapseSpace(t) ==
  IF Len(t) = 0 THEN <<>>
  ELSE IF Blank(t[1]) THEN <<Run(" ", 1)>> \o CollapseSpace(DropBlank(t))
  ELSE <<t[1]>> \o CollapseSpace(Tail(t))

\* text.trim()
TrimText(t) == DropBlankEnd(DropBlank(t))

\* text.substring(0, n)
RECURSIVE SubstringText(_, _)
SubstringText(t, n) ==
  IF Len(t) = 0 \/ n = 0 THEN <<>>
  ELSE IF t[1].n >= n THEN <<Run(t[1].c, n)>>
  ELSE <<t[1]>> \o SubstringText(Tail(t), n - t[1].n)

CONTENT_SELECTORS_ARTICLE == <<"article", "[role=main]", ".content", ".post", ".entry">>
CONTENT_SELECTORS_REMOVE ==
  {"script", "style", "nav", "footer", "header", "aside", ".ad", ".advertisement"}

\* an article candidate shorter than this is not accepted
MinArticleLength == 100

\* an element of the body: the selector it matches, its text without the
\* text of its descendants that match CONTENT_SELECTORS.REMOVE, and the text
\* of those descendants, which follow its own text
ElementWith(sel, text, junk) == [sel |-> sel, text |-> text, junk |-> junk]
Element(sel, text) == ElementWith(sel, text, <<>>)

\* element.find(CONTENT_SELECTORS.REMOVE.join(',')).remove(); element.text()
Remaining(element) == element.text

\* the index of $(selector).first(), or 0
FirstMatch(page, selector) ==
  IF \E i \in 1..Len(page) : page[i].sel = selector
  THEN CHOOSE i \in 1..Len(page) :
         /\ page[i].sel = selector
         /\ \A j \in 1..(i - 1) : page[j].sel # selector
  ELSE 0

\* element.text().replace(/\s+/g, ' ').trim()
NormalText(t) == TrimText(CollapseSpace(t))

\* an article candidate, its unwanted descendants removed, is accepted if it
\* is long enough
Candidate(content) ==
  [found |-> TextLength(content) > MinArticleLength,
   content |-> SubstringText(content, MAX_CONTENT_LENGTH)]

\* a loop over the elements in document order, from element k on
RECURSIVE ArticleContent_DocumentOrder(_, _)
ArticleContent_DocumentOrder(page, k) ==
  IF k > Len(page) THEN [found |-> FALSE, content |-> <<>>]
  ELSE IF (\E i \in 1..Len(CONTENT_SELECTORS_ARTICLE) :
             CONTENT_SELECTORS_ARTICLE[i] = page[k].sel)
          /\ Candidate(NormalText(Remaining(page[k]))).found
  THEN Candidate(NormalText(Remaining(page[k])))
  ELSE ArticleContent_DocumentOrder(page, k + 1)

\* the loop over CONTENT_SELECTORS.ARTICLE, from selector k on
RECURSIVE ArticleContent(_, _)
ArticleContent(page, k) ==
  IF k > Len(CONTENT_SELECTORS_ARTICLE) THEN [found |-> FALSE, content |-> <<>>]
  ELSE IF FirstMatch(page, CONTENT_SELECTORS_ARTICLE[k]) # 0
          /\ Candidate(NormalText(Remaining(
               page[FirstMatch(page, CONTENT_SELECTORS_ARTICLE[k])]))).found
  THEN Candidate(NormalText(Remaining(
         page[FirstMatch(page, CONTENT_SELECTORS_ARTICLE[k])])))
  ELSE ArticleContent(page, k + 1)

\* $('body').text() once the unwanted elements are removed
RECURSIVE BodyTextOf(_)
BodyTextOf(page) ==
  IF Len(page) = 0 THEN <<>>
  ELSE IF page[1].sel \in CONTENT_SELECTORS_REMOVE THEN BodyTextOf(Tail(page))
  ELSE Remaining(page[1]) \o BodyTextOf(Tail(page))

\* the text of body merges adjacent runs of white space on collapsing
bodyText(page) == NormalText(BodyTextOf(page))

\* BaseSearchService.extractTextContent
extractTextContent(page, contentType) ==
  IF contentType = Chars_article /\ ArticleContent(page, 1).found
  THEN ArticleContent(page, 1).content
  ELSE IF contentType = Chars_text_only THEN bodyText(page)
  ELSE SubstringText(bodyText(page), MAX_CONTENT_LENGTH)

\* the variables that the application of a function leaves alone
server == <<variant, reqs, cache, now, timerOn, lastSet, lastOp, curl, browser, proc>>

\* extractContentFromHtml sets result.content from a page
ExtractTextContent(page, contentType) ==
  /\ fn.f = "none"
  /\ fn' = [f |-> "extractTextContent", in |-> <<page, contentType>>,
            out |-> extractTextContent(page, OrElse(contentType, Str(Chars_article)).s)]
  /\ UNCHANGED server

\* Validator.validateDomain applied to a domain argument
ValidateDomain(domain) ==
  /\ fn.f = "none"
  /\ fn' = [f |-> "validateDomain", in |-> domain, out |-> validateDomain(domain)]
  /\ UNCHANGED server

Chars_example_com == <<"e", "x", "a", "m", "p", "l", "e", ".", "c", "o", "m">>
Chars_sub_example_co_uk == <<"s", "u", "b", ".", "e", "x", "a", "m", "p", "l", "e", ".", "c", "o", ".", "u", "k">>

\* domain arguments: a scheme or white space, a host, and a path or a port
DomainPrefixes ==
  { <<>>, <<"h", "t", "t", "p", ":", "/", "/">>, <<"h", "t", "t", "p", "s", ":", "/", "/">>, <<"H", "T", "T", "P", "S", ":", "/", "/">>, <<" ", " ">>, <<"f", "t", "p", ":", "/", "/">> }

DomainHosts ==
  { <<>>, Chars_example_com, Chars_sub_example_co_uk, <<"E", "x", "a", "m", "p", "l", "e", ".", "C", "O", "M">>,
    Chars_not_a_domain, <<"-", "a", ".", "c", "o", "m">>, <<"a", "-", ".", "c", "o", "m">>, <<"a", ".", ".", "c", "o", "m">>, <<"a", ".", "c", "o", "m", ".">>, <<"a", "_", "b", ".", "c", "o", "m">>, <<"x">>,
    [i \in 1..(MaxLabelMiddle + 2) |-> "a"] \o <<".", "c", "o", "m">>,
    [i \in 1..(MaxLabelMiddle + 3) |-> "a"] \o <<".", "c", "o", "m">> }

DomainSuffixes ==
  { <<>>, <<"/">>, <<"/", "P", "a", "t", "h", "/", "x">>, <<" ">>, <<"/", "a", " ", "b">>, <<"?", "q", "=", "1">>, <<":", "8", "0", "8", "0">> }

DomainInputs ==
  {Str(p \o h \o s) : p \in DomainPrefixes, h \in DomainHosts, s \in DomainSuffixes}
    \cup {Undef, Null, Num(1)}

\* CacheService.generateKey applied to the argument tuples a and b
GenerateKeys(a, b) ==
  /\ fn.f = "none"
  /\ fn' = [f |-> "generateKey", in |-> <<a, b>>,
            out |-> <<generateKey(Chars_search, a), generateKey(Chars_search, b)>>]
  /\ UNCHANGED server

\* queries that differ in case, in punctuation and beyond character 200
KeyQueries ==
  { Chars_cats, <<"C", "a", "t", "s">>, <<"a", " ", "b">>, <<"a", "_", "b">>, <<"a", "?", "b">>,
    [i \in 1..MaxKeyLength |-> "x"] \o <<"a">>,
    [i \in 1..MaxKeyLength |-> "x"] \o <<"b">> }

\* the parts of the keys of handleWebSearch and of handleBulkSearch
KeyParts ==
  {<<Str(e), Str(q), Num(n), Str(Chars_en), Str(Chars_us)>> :
     e \in {Chars_duckduckgo, Chars_google}, q \in KeyQueries, n \in {1, DEFAULT_MAX_RESULTS}}
  \cup {<<Str(Chars_duckduckgo), Str(q), Num(DefaultBulkMaxResults)>> : q \in KeyQueries}

\* the path of a URL without its query and fragment, and these
PathOnly(p) == SubSeq(p, 1, IndexOfAny(p, {"?", "#"}, 1) - 1)
AfterPath(p) == SubSeq(p, IndexOfAny(p, {"?", "#"}, 1), Len(p))
WithoutFragment(p) == SubSeq(p, 1, IndexOfAny(p, {"#"}, 1) - 1)

\* a path up to its last slash
RECURSIVE DirOf(_)
DirOf(path) ==
  IF Len(path) = 0 \/ path[Len(path)] = "/" THEN path
  ELSE DirOf(SubSeq(path, 1, Len(path) - 1))

\* the segments of a path with its . and .. segments resolved
RECURSIVE RemoveDots(_, _)
RemoveDots(segments, out) ==
  IF Len(segments) = 0 THEN out
  ELSE IF segments[1] = <<".">>
  THEN RemoveDots(Tail(segments), IF Len(segments) = 1 THEN Append(out, <<>>) ELSE out)
  ELSE IF segments[1] = <<".", ".">>
  THEN RemoveDots(Tail(segments),
                  IF Len(segments) = 1
                  THEN Append(SubSeq(out, 1, Len(out) - 1), <<>>)
                  ELSE SubSeq(out, 1, Len(out) - 1))
  ELSE RemoveDots(Tail(segments), Append(out, segments[1]))

\* a path that starts with a slash, normalised, with its query and fragment
NormalPath(p) ==
  <<"/">> \o join(RemoveDots(split(Tail(PathOnly(p)), "/"), <<>>), <<"/">>) \o AfterPath(p)

\* a resolution that leaves the reference as it is
resolveUrl_Unresolved(href, b) ==
  [ok |-> TRUE, protocol |-> <<>>, host |-> <<>>, path |-> href]

\* new URL(href, base) for the parsed base b: an absolute reference is parsed
\* on its own, a relative one is resolved against the base
resolveUrl(href, b) ==
  IF SchemeOk(trim(href), IndexOfAny(trim(href), {":"}, 1)) THEN ParseURL(href)
  ELSE IF ~b.ok THEN BadURL
  ELSE IF Len(trim(href)) = 0 THEN [b EXCEPT !.path = WithoutFragment(b.path)]
  ELSE IF StartsWith(trim(href), <<"/", "/">>)
  THEN ParseURLAfterSlashes(b.protocol, DropWhileIn(trim(href), {"/", "\\"}))
  ELSE IF trim(href)[1] = "/" THEN [b EXCEPT !.path = NormalPath(trim(href))]
  ELSE IF trim(href)[1] = "?" THEN [b EXCEPT !.path = PathOnly(b.path) \o trim(href)]
  ELSE IF trim(href)[1] = "#" THEN [b EXCEPT !.path = WithoutFragment(b.path) \o trim(href)]
  ELSE [b EXCEPT !.path = NormalPath(DirOf(PathOnly(b.path)) \o trim(href))]

\* new URL(href, baseUrl).toString() of a relative result has no scheme only
\* if the resolution left the reference alone
ResolvedString(u) == IF Len(u.protocol) = 0 THEN u.path ELSE URLtoString(u)

\* DEFAULT_CONFIG.MAX_LINKS, DEFAULT_CONFIG.MAX_IMAGES
MAX_LINKS == 50
MAX_IMAGES == 20

\* an a[href] element and an img[src] element of a page
Anchor(href, text) == [href |-> href, text |-> text]
Image(src, alt) == [src |-> src, alt |-> alt]

\* the link of an anchor
Link(text, absoluteUrl) ==
  Obj(<<"text", "href", "domain">>,
      <<Str(text), Str(absoluteUrl), Str(extractDomain(absoluteUrl))>>)

\* $('a[href]').each(...) of extractLinks
RECURSIVE LinksEach(_, _, _)
LinksEach(anchors, baseUrl, links) ==
  IF Len(anchors) = 0 \/ Len(links) >= MAX_LINKS THEN links
  ELSE IF Len(anchors[1].href) > 0 /\ Len(trim(anchors[1].text)) > 0
          /\ resolveUrl(anchors[1].href, ParseURL(baseUrl)).ok
  THEN LinksEach(Tail(anchors), baseUrl,
                 Append(links, Link(trim(anchors[1].text),
                                    ResolvedString(resolveUrl(anchors[1].href,
                                                              ParseURL(baseUrl))))))
  ELSE LinksEach(Tail(anchors), baseUrl, links)

extractLinks(anchors, baseUrl) == LinksEach(anchors, baseUrl, <<>>)

\* $('img[src]').each(...) of extractImages
RECURSIVE ImagesEach(_, _, _)
ImagesEach(imgs, baseUrl, images) ==
  IF Len(imgs) = 0 \/ Len(images) >= MAX_IMAGES THEN images
  ELSE IF Len(imgs[1].src) > 0 /\ resolveUrl(imgs[1].src, ParseURL(baseUrl)).ok
  THEN ImagesEach(Tail(imgs), baseUrl,
                  Append(images,
                         Obj(<<"src", "alt">>,
                             <<Str(ResolvedString(resolveUrl(imgs[1].src, ParseURL(baseUrl)))),
                               OrElse(imgs[1].alt, Str(<<>>))>>)))
  ELSE ImagesEach(Tail(imgs), baseUrl, images)

extractImages(imgs, baseUrl) == ImagesEach(imgs, baseUrl, <<>>)

\* extractContentFromHtml sets result.links from the anchors of a page
ExtractLinks(anchors, baseUrl) ==
  /\ fn.f = "none"
  /\ fn' = [f |-> "extractLinks", in |-> <<anchors, baseUrl>>,
            out |-> extractLinks(anchors, baseUrl)]
  /\ UNCHANGED server

\* extractContentFromHtml sets result.images from the images of a page
ExtractImages(imgs, baseUrl) ==
  /\ fn.f = "none"
  /\ fn' = [f |-> "extractImages", in |-> <<imgs, baseUrl>>,
            out |-> extractImages(imgs, baseUrl)]
  /\ UNCHANGED server

Url_dir_page == Chars_https \o <<":", "/", "/">> \o Chars_a_com \o <<"/", "d", "/", "p">>
BaseUrls == {Url_page, Url_dir_page}

\* references: relative ones of every form, absolute ones, and ones that
\* new URL rejects (no host, a space in the host), and the empty one
Href_x == <<"/", "x">>
Refs ==
  { Href_x, <<"x">>, <<"?", "q", "=", "1">>, <<"#", "t", "o", "p">>,
    <<"/", "/", "b", ".", "o", "r", "g", "/", "y">>, Href_b, <<"m", "a", "i", "l", "t", "o", ":", "x">>,
    <<".", ".", "/", "x">>, <<"h", "t", "t", "p", ":", "/", "/">>,
    <<"h", "t", "t", "p", "s", ":", "/", "/", "b", " ", "c", "/">>, <<>> }

\* pages of at most this many anchors or images of every kind
MaxAnchors == 2

\* the anchor at position i: its text tells i, or is blank
AnchorAt(i, ref, blank) == Anchor(ref, IF blank THEN <<" ">> ELSE <<" ", "t">> \o NumChars(i))

\* n anchors that resolve, after the anchors of bad
ManyAnchors(bad, n) ==
  bad \o [i \in 1..n |-> Anchor(Href_x \o NumChars(i), <<"t">> \o NumChars(i))]

AnchorPages ==
  UNION {{[i \in 1..n |-> AnchorAt(i, kinds[i][1], kinds[i][2])] :
            kinds \in [1..n -> Refs \X BOOLEAN]} : n \in 0..MaxAnchors}
    \cup {ManyAnchors(bad, n) :
            bad \in {<<>>, <<Anchor(<<"h", "t", "t", "p", ":", "/", "/">>, <<"t">>),
                              Anchor(Href_x, <<" ">>)>>},
            n \in {MAX_LINKS - 1, MAX_LINKS, MAX_LINKS + 1}}

ManyImages(bad, n) == bad \o [i \in 1..n |-> Image(Href_x \o NumChars(i), Undef)]

ImagePages ==
  UNION {{[i \in 1..n |-> Image(kinds[i][1], kinds[i][2])] :
            kinds \in [1..n -> Refs \X {Undef, Str(<<"a">>)}]} : n \in 0..MaxAnchors}
    \cup {ManyImages(bad, n) :
            bad \in {<<>>, <<Image(<<"h", "t", "t", "p", ":", "/", "/">>, Undef)>>},
            n \in {MAX_IMAGES - 1, MAX_IMAGES, MAX_IMAGES + 1}}

\* BaseSearchService.parseSearchResults applied to a document
ParseSearchResults(doc, engine, maxResults) ==
  /\ fn.f = "none"
  /\ fn' = [f |-> "parseSearchResults", in |-> <<doc, engine, maxResults>>,
            out |-> parseSearchResults(doc, engine, maxResults)]
  /\ UNCHANGED server

\* the kinds of container of a document: well-formed ones of two engines,
\* and ones with a blank title, without link, with an empty and a relative
\* href
ContainerKinds == {"result", "g", "blank", "nolink", "empty", "relative"}

\* the container of a kind at position i of a document; its title tells i
ContainerAt(kind, i) ==
  Container(IF kind = "g" THEN "g" ELSE "result",
            IF kind = "blank" THEN Chars_blank ELSE <<" ", "T">> \o NumChars(i),
            CASE kind = "nolink" -> Undef
              [] kind = "empty" -> Str(<<>>)
              [] kind = "relative" -> Str(Href_relative)
              [] OTHER -> Str(Href_a \o NumChars(i)),
            <<"s">>)

\* documents of at most this many containers of every kind
MaxContainers == 3

\* the documents: every sequence of kinds, and five well-formed containers
ParseDocs ==
  UNION {{[i \in 1..n |-> ContainerAt(kinds[i], i)] : kinds \in [1..n -> ContainerKinds]} :
           n \in 0..MaxContainers}
    \cup {[i \in 1..5 |-> ContainerAt("result", i)]}

ParseEngines == {Chars_duckduckgo, Chars_google, Chars_bing}

\* the lengths of the texts of the pages
TextLengths == {0, 100, 101, 4999, 5000, 5001}

\* a page: an element that may be an article candidate, a navigation bar,
\* and a block of text between white space
PageWith(sel, n, m) ==
  << Element(sel, TextOf(" ", 2) \o TextOf("x", n) \o TextOf(" ", 1)),
     Element("nav", TextOf("x", 5001)),
     Element("div", TextOf(" ", 3) \o TextOf("x", m) \o TextOf(" ", 2)) >>

Pages ==
  {PageWith(sel, n, m) : sel \in {"article", ".entry", "div"},
                         n \in TextLengths, m \in TextLengths}

\* pages of at most this many elements
MaxElements == 2

\* the element at position i of a page: its text is n times the i-th letter,
\* and its unwanted descendants have a text of junk characters
ElementAt(i, sel, n, junk) ==
  ElementWith(sel, TextOf(<<"a", "b", "c", "d">>[i], n), TextOf("j", junk))

\* what an element of a page may be: an article candidate of a selector or
\* another element, at or over the minimum length, with or without unwanted
\* descendants
ElementKinds ==
  {"article", "[role=main]", ".content", ".post", ".entry", "div", "nav"}
    \X {MinArticleLength, MinArticleLength + 1} \X {0, 2 * MinArticleLength}

\* the pages of at most MaxElements elements
ArticlePages ==
  UNION {{[i \in 1..n |-> ElementAt(i, kinds[i][1], kinds[i][2], kinds[i][3])] :
            kinds \in [1..n -> ElementKinds]} : n \in 0..MaxElements}

Chars_all == <<"a", "l", "l">>
ContentTypes == {Str(Chars_article), Str(Chars_all), Str(Chars_text_only), Undef}

NextFunctions ==
  \/ \E page \in Pages \cup ArticlePages : \E contentType \in ContentTypes :
       ExtractTextContent(page, contentType)
  \/ \E domain \in DomainInputs : ValidateDomain(domain)
  \/ \E a \in KeyParts : \E b \in KeyParts : GenerateKeys(a, b)
  \/ \E doc \in ParseDocs : \E engine \in ParseEngines : \E maxResults \in 1..3 :
       ParseSearchResults(doc, engine, maxResults)
  \/ \E anchors \in AnchorPages : \E baseUrl \in BaseUrls : ExtractLinks(anchors, baseUrl)
  \/ \E imgs \in ImagePages : \E baseUrl \in BaseUrls : ExtractImages(imgs, baseUrl)

\* the functions do not depend on the server they are called from
InitFunctions == Init /\ variant = "enhanced"

SpecFunctions == InitFunctions /\ [][NextFunctions]_vars

-----------------------------------------------------------------------------
(* Searches with every kind of max_results argument *)

Chars_5 == <<"5">>

\* what a client supplies as max_results or max_results_per_query: nothing,
\* integers in and out of the range, 2.5, strings and true
MaxResultsValues ==
  { Undef, Num(1), Num(MAX_RESULTS), Num(0), Num(MAX_RESULTS + 1), Num(-1),
    [Num(2) EXCEPT !.frac = TRUE], Str(Chars_5), Str(Chars_cats), Bool(TRUE) }

MaxResultsCalls ==
  ({"search_web", "search_web_fallback"}
     \X {Args([query |-> Str(Chars_cats), max_results |-> v]) : v \in MaxResultsValues})
  \cup
  ({"bulk_search"}
     \X {Args([queries |-> Arr(<<Str(Chars_cats)>>), max_results_per_query |-> v]) :
           v \in MaxResultsValues})

NextMaxResults ==
  \/ \E r \in 1..MaxReqs : \E call \in MaxResultsCalls : Call(r, call[1], call[2])
  \/ \E r \in 1..MaxReqs : \E outcome \in Outcomes(variant) : FetchSettles(r, 1, outcome)

SpecMaxResults == Init /\ [][NextMaxResults]_vars

-----------------------------------------------------------------------------
(* search_web of the enhanced server with its language, region and         *)
(* safe_search arguments                                                   *)

InitSearchUrl == Init /\ variant = "enhanced"

Chars_a_b == <<"a", " ", "b">>
Chars_de == <<"d", "e">>
Chars_uk == <<"u", "k">>

SearchUrlArgs ==
  { Args([query |-> Str(query), engine |-> engine, language |-> language,
          region |-> region, safe_search |-> safe_search]) :
      query \in {Chars_cats, Chars_a_b},
      engine \in {Undef, Str(Chars_google), Str(Chars_bing)},
      language \in {Undef, Str(Chars_de)},
      region \in {Undef, Str(Chars_uk)},
      safe_search \in {Undef, Bool(FALSE)} }

SearchUrlOutcomes == {FetchOk(DocResults), FetchFail("Request timeout")}

NextSearchUrl ==
  \/ \E r \in 1..MaxReqs : \E args \in SearchUrlArgs : Call(r, "search_web", args)
  \/ \E r \in 1..MaxReqs : \E outcome \in SearchUrlOutcomes : FetchSettles(r, 1, outcome)

SpecSearchUrl == InitSearchUrl /\ [][NextSearchUrl]_vars

-----------------------------------------------------------------------------
(* Properties of the dispatcher *)

Requests == 1..MaxReqs

Registered(r) == reqs[r].pc # "new" /\ reqs[r].name \in getTools(variant)

\* what the validation of the arguments of a tool gives
ValidationOf(name, args) ==
  CASE args.t = "undefined" -> Ok(NoOptions)
    [] name \in {"search_web", "search_web_fallback"} -> webSearchOptions(args)
    [] name \in {"extract_content", "visit_page", "fetch_page"} ->
         validateContentExtractionArgs(args)
    [] name = "bulk_search" -> bulkOptions(args)
    [] name = "analyze_domain" -> validateDomain(args.domain)
    [] OTHER -> Ok(NoOptions)

IsErrorEnvelope(resp) ==
  /\ resp.kind = "result"
  /\ resp.isError = Bool(TRUE)
  /\ Len(resp.text) = 1
  /\ resp.text[1] # ""

\* C1: a call of a registered tool whose handler throws, in validation or
\* in execution, is answered by exactly one result envelope with
\* isError: true and a message, never by a protocol error.
C1_FailureBecomesErrorEnvelope ==
  \A r \in Requests :
    (Registered(r) /\ reqs[r].g.thrown > 0) =>
      /\ reqs[r].pc = "done"
      /\ reqs[r].g.thrown = 1
      /\ reqs[r].g.responses = 1
      /\ IsErrorEnvelope(reqs[r].resp)

\* a search of a registered tool failed after its fetch was started
C1_Witness ==
  \E r \in Requests :
    /\ Registered(r)
    /\ reqs[r].g.thrown = 1
    /\ reqs[r].g.failed = {1}
    /\ IsErrorEnvelope(reqs[r].resp)

\* C2: a call of a name that is not in the tool registry of the variant is
\* answered with the method-not-found error, and no handler, validation,
\* cache access or fetch happens for it.
C2_UnknownToolIsMethodNotFound ==
  \A r \in Requests :
    (reqs[r].pc # "new" /\ reqs[r].name \notin getTools(variant)) =>
      /\ reqs[r].pc = "done"
      /\ reqs[r].resp.kind = "protocolError"
      /\ reqs[r].resp.code = METHOD_NOT_FOUND
      /\ reqs[r].g.responses = 1
      /\ reqs[r].g.handler = 0
      /\ reqs[r].g.validated = 0
      /\ reqs[r].g.cacheReads = 0
      /\ reqs[r].g.cacheWrites = 0
      /\ reqs[r].g.fetches = 0

\* a tool of another variant is called while the cache holds an entry
C2_Witness ==
  \E r \in Requests :
    /\ reqs[r].pc = "done"
    /\ reqs[r].name = "search_web_fallback"
    /\ variant = "enhanced"
    /\ reqs[r].resp.code = METHOD_NOT_FOUND
    /\ DOMAIN cache # {}

BulkEntry(r, i) == reqs[r].resp.data.a[i]

\* C4: a bulk_search call with valid queries returns one success envelope
\* with one entry per query in input order; the entry of a query whose
\* search succeeded (or was cached) carries results, the entry of a query
\* whose search failed carries an error, and the call as a whole never
\* fails.
C4_BulkIsolatesFailures ==
  \A r \in Requests :
    (Registered(r) /\ reqs[r].name = "bulk_search"
       /\ reqs[r].args.t # "undefined" /\ bulkOptions(reqs[r].args).ok) =>
      /\ reqs[r].g.thrown = 0
      /\ Len(reqs[r].tasks) = Len(bulkOptions(reqs[r].args).v.queries)
      /\ reqs[r].pc = "waiting" <=> ~AllSettled(reqs[r].tasks)
      /\ reqs[r].pc = "done" =>
           /\ reqs[r].resp.kind = "result"
           /\ reqs[r].resp.isError # Bool(TRUE)
           /\ reqs[r].resp.data.t = "array"
           /\ Len(reqs[r].resp.data.a) = Len(reqs[r].tasks)
           /\ \A i \in 1..Len(reqs[r].tasks) :
                /\ ObjGet(BulkEntry(r, i), "query") =
                     Str(bulkOptions(reqs[r].args).v.queries[i])
                /\ ObjGet(BulkEntry(r, i), "results").t = "array"
                /\ i \in reqs[r].g.failed <=> ObjHas(BulkEntry(r, i), "error")
                /\ i \in reqs[r].g.failed =>
                     ObjGet(BulkEntry(r, i), "results") = Arr(<<>>)

\* of two queries the search of the first failed, that of the second
\* succeeded, and the call has answered
C4_Witness ==
  \E r \in Requests :
    /\ Registered(r)
    /\ reqs[r].name = "bulk_search"
    /\ reqs[r].pc = "done"
    /\ reqs[r].g.failed = {1}
    /\ reqs[r].g.succeeded = {2}
    /\ ObjHas(BulkEntry(r, 1), "error")
    /\ Len(ObjGet(BulkEntry(r, 2), "results").a) > 0

-----------------------------------------------------------------------------
(* Properties of the cache *)

\* the most recent set of key k is still in force and not older than ttl
Fresh(k) == lastSet[k].live /\ now - lastSet[k].timestamp <= CacheTTL

\* C5: get(k) returns the value of the most recent set(k, v) when the entry
\* was not deleted or cleared since and is not older than ttl, and a miss
\* otherwise; a set followed at once by a get of the key returns the value
\* set; after a get or has of a key the store holds no stale entry of it.
C5_CacheGetSemantics ==
  /\ lastOp.op = "get" =>
       lastOp.ret = (IF Fresh(lastOp.key) THEN lastSet[lastOp.key].value ELSE Null)
  /\ (lastOp.op = "get" /\ lastOp.prevOp = "set" /\ lastOp.prevKey = lastOp.key) =>
       lastOp.ret = lastOp.prevArg
  /\ (lastOp.op \in {"get", "has"} /\ lastOp.key \in DOMAIN cache) =>
       now - cache[lastOp.key].timestamp <= CacheTTL
  /\ lastOp.op = "has" => lastOp.ret = Bool(Fresh(lastOp.key))

\* a get finds the entry of its key older than ttl: a miss, and the entry
\* is gone
C5_Witness ==
  /\ lastOp.op = "get"
  /\ lastSet[lastOp.key].live
  /\ now - lastSet[lastOp.key].timestamp > CacheTTL
  /\ lastOp.ret = Null
  /\ lastOp.key \notin DOMAIN cache

-----------------------------------------------------------------------------
(* Properties of search_web *)

SearchTools == {"search_web", "search_web_fallback"}

IsSuccessEnvelope(resp) == resp.kind = "result" /\ resp.isError # Bool(TRUE)

\* C6: of two search_web calls on the enhanced variant with the same
\* arguments, the second answered from the cache after the first was
\* answered from a fetch, the payload text of the second is that of the
\* first.
C6_CachedPayloadIsIdentical ==
  ( /\ variant = "enhanced"
    /\ reqs[1].name = "search_web" /\ reqs[2].name = "search_web"
    /\ reqs[1].args = reqs[2].args
    /\ reqs[1].pc = "done" /\ reqs[2].pc = "done"
    /\ IsSuccessEnvelope(reqs[1].resp) /\ IsSuccessEnvelope(reqs[2].resp)
    /\ reqs[1].g.fetches = 1 /\ reqs[1].g.cacheWrites = 1
    /\ reqs[2].g.fetches = 0 /\ reqs[2].g.cacheReads = 1 )
  => reqs[2].resp.text = reqs[1].resp.text

\* an absolute URL with the http or https scheme
IsAbsoluteHttpUrl(url) ==
  ParseURL(url).ok /\ ParseURL(url).protocol \in {Chars_http, Chars_https}

\* C7: the list a search answers with has at most maxResults items, and
\* every item has a non-empty title and an absolute http or https url.
C7_ResultsAreWellFormed ==
  \A r \in Requests :
    ( /\ Registered(r) /\ reqs[r].name \in SearchTools
      /\ reqs[r].pc = "done"
      /\ IsSuccessEnvelope(reqs[r].resp)
      /\ reqs[r].resp.data.t = "array" ) =>
      /\ Len(reqs[r].resp.data.a) <= reqs[r].options.maxResults
      /\ \A i \in 1..Len(reqs[r].resp.data.a) :
           /\ Len(ObjGet(reqs[r].resp.data.a[i], "title").s) > 0
           /\ IsAbsoluteHttpUrl(ObjGet(reqs[r].resp.data.a[i], "url").s)

\* C8: when the fetched search page has no element that matches the result
\* selectors, the search is answered with a success envelope and an empty
\* list, in every variant.
C8_EmptyPageIsEmptySuccess ==
  [][ \A r \in Requests :
        ( /\ Registered(r) /\ reqs[r].name \in SearchTools
          /\ FetchSettles(r, 1, FetchOk(DocEmpty)) ) =>
          /\ IsSuccessEnvelope(reqs'[r].resp)
          /\ reqs'[r].resp.data = Arr(<<>>) ]_vars

-----------------------------------------------------------------------------
(* Properties of fetchWithCurl *)

Settled_(promise) == promise.state # "pending"

\* C9: the fetch succeeds only when curl exited with code 0 and gave
\* output; it never succeeds with an empty document.
C9_SuccessHasOutput ==
  curl.promise.state = "fulfilled" =>
    /\ curl.pc = "closed"
    /\ curl.chunks > 0
    /\ curl.promise.value # ""

TimeoutError == [state |-> "rejected", value |-> "", reason |-> "Request timeout"]

\* C10: every fetch settles; once settled its outcome never changes,
\* whatever event arrives later; and when the timer expires while the fetch
\* is pending, the process is killed and the fetch fails with the timeout
\* error.
C10_FetchSettlesOnce ==
  /\ [](curl.pc = "running" => <>Settled_(curl.promise))
  /\ [][(Settled_(curl.promise) /\ curl'.n = curl.n)
          => curl'.promise = curl.promise]_vars
  /\ [][(curl.timer = "set" /\ curl'.timer = "fired" /\ ~Settled_(curl.promise))
          => (curl'.killed /\ curl'.promise = TimeoutError)]_vars

\* the close event of the killed process arrives after the timeout error
C10_Witness ==
  /\ curl.pc = "closed"
  /\ curl.killed
  /\ curl.timer = "fired"
  /\ curl.promise = TimeoutError

-----------------------------------------------------------------------------
(* Properties of the browser service *)

InFlight(r) == BrowserCallOf(r).pc \notin {"idle", "done"}

PagesOpenedBy(r) == {p \in browser.pages : p[1] = r}

\* C11: in the browser service every page that a call of search or
\* extractContent opened is closed when the call has returned, whether it
\* succeeded or failed in configuration, navigation, the selector wait or
\* parsing, under any interleaving of the calls; when no call is in flight
\* no page is open.
C11_PagesAreClosed ==
  /\ \A r \in Requests :
       BrowserCallOf(r).pc = "done" =>
         /\ PagesOpenedBy(r) = {}
         /\ BrowserCallOf(r).closed = BrowserCallOf(r).opened
  /\ (\A r \in Requests : ~InFlight(r)) => browser.pages = {}

\* two calls ran concurrently on pages of their own and have returned, one
\* with the document and one from its catch block
C11_Witness ==
  /\ \A r \in Requests : BrowserCallOf(r).pc = "done" /\ BrowserCallOf(r).opened = 1
  /\ \E r \in Requests : BrowserCallOf(r).outcome.ok /\ reqs[r].resp.isError # Bool(TRUE)
  /\ \E r \in Requests : ~BrowserCallOf(r).outcome.ok /\ reqs[r].resp.isError = Bool(TRUE)
  /\ Alive

-----------------------------------------------------------------------------
(* Properties of the process *)

ShutdownBegun == proc.cleanups > 0

\* a tools/call request is dispatched in this step
SomeDispatch == \E r \in Requests : reqs[r].pc = "new" /\ reqs'[r].pc # "new"

\* the process exits in this step
Exits == proc.state # "exited" /\ proc'.state = "exited"

\* the browser and the cache of the variant are released
Released(v, b, c, t) ==
  /\ v = "browser" => b.handle = 0 /\ b.connected = {}
  /\ v = "enhanced" => c = EmptyStore /\ ~t

\* C12: on SIGINT, SIGTERM or SIGUSR2 the server shuts down in order: no
\* tool call is dispatched once shutdown has begun, and the process exits
\* only when cleanup has finished and has released the browser and the cache.
C12_ShutdownIsOrdered ==
  [][/\ ShutdownBegun => ~SomeDispatch
     /\ Exits => /\ proc'.cleaned > 0
                 /\ Released(variant, browser', cache', timerOn')]_vars

FatalLines == {"Uncaught exception", "Unhandled rejection"}

\* C13: an uncaught exception and an unhandled promise rejection are both
\* logged and both trigger graceful shutdown: once either has happened its
\* line is in the log and cleanup() of the variant has been called, and the
\* process is cleaning up or has exited.
C13_FatalEventShutsDown ==
  proc.fatal # "none" =>
    /\ \E i \in 1..Len(proc.log) : proc.log[i] \in FatalLines
    /\ proc.cleanups > 0
    /\ proc.state \in {"cleaning", "exited"}

-----------------------------------------------------------------------------
(* Properties of analyze_domain *)

\* request r is an analyze_domain call with a syntactically valid domain
DomainCall(r) ==
  /\ Registered(r)
  /\ reqs[r].name = "analyze_domain"
  /\ reqs[r].args.t = "object"
  /\ validateDomain(reqs[r].args.domain).ok

\* the messages with which extractContent of the HTTP service fails
ExtractFailures ==
  {Str(<<"Content extraction failed: " \o o.message>>) : o \in {o \in HttpOutcomes : ~o.ok}}

Analysis(r) == reqs[r].resp.data

\* C14: analyze_domain on a valid domain whose homepage fetch fails is
\* answered by a success envelope with a DomainAnalysis whose error is the
\* failure message and which has no homepage and no endpoints; no endpoint
\* is probed after the failed homepage fetch.
C14_HomepageFailureIsReported ==
  \A r \in Requests :
    (DomainCall(r) /\ 1 \in reqs[r].g.failed) =>
      /\ reqs[r].pc = "done"
      /\ IsSuccessEnvelope(reqs[r].resp)
      /\ ObjHas(Analysis(r), "error")
      /\ ObjGet(Analysis(r), "error") \in ExtractFailures
      /\ ObjGet(Analysis(r), "domain") = Str(validateDomain(reqs[r].args.domain).v)
      /\ ~ObjHas(Analysis(r), "homepage")
      /\ ~ObjHas(Analysis(r), "endpoints")
      /\ reqs[r].g.fetches = 1
      /\ Len(reqs[r].tasks) = 1

\* the homepage fetch of an analyze_domain call timed out and the call was
\* answered
C14_Witness ==
  \E r \in Requests :
    /\ DomainCall(r)
    /\ reqs[r].g.failed = {1}
    /\ reqs[r].pc = "done"
    /\ ObjGet(Analysis(r), "error") = Str(<<"Content extraction failed: Request timeout">>)

EndpointStatus(r, k) == ObjGet(ObjGet(Analysis(r), "endpoints"), EndpointName(k))

\* C15: in analyze_domain, once the homepage fetch has succeeded, every
\* common endpoint is probed in turn: a failed probe records "not_found"
\* for its endpoint only and the next endpoint is still probed; the final
\* DomainAnalysis has "exists" or "not_found" for every endpoint, by the
\* outcome of its probe, and no error.
C15_EveryEndpointIsProbed ==
  \A r \in Requests :
    (DomainCall(r) /\ 1 \in reqs[r].g.succeeded) =>
      /\ reqs[r].pc = "waiting" =>
            /\ reqs[r].stage \in 1..Len(COMMON_ENDPOINTS)
            /\ reqs[r].g.fetches = reqs[r].stage + 1
            /\ reqs[r].g.succeeded \cup reqs[r].g.failed = 1..reqs[r].stage
      /\ reqs[r].pc = "done" =>
            /\ IsSuccessEnvelope(reqs[r].resp)
            /\ ~ObjHas(Analysis(r), "error")
            /\ ObjHas(Analysis(r), "homepage")
            /\ ObjHas(Analysis(r), "endpoints")
            /\ reqs[r].g.fetches = Len(COMMON_ENDPOINTS) + 1
            /\ ObjGet(Analysis(r), "endpoints").keys =
                 [k \in 1..Len(COMMON_ENDPOINTS) |-> EndpointName(k)]
            /\ \A k \in 1..Len(COMMON_ENDPOINTS) :
                 EndpointStatus(r, k) =
                   IF k + 1 \in reqs[r].g.succeeded THEN Str(<<"exists">>)
                   ELSE Str(<<"not_found">>)
      /\ reqs[r].pc \in {"waiting", "done"}

\* the probe of the second endpoint failed, the probes of the first and the
\* third succeeded
C15_Witness ==
  \E r \in Requests :
    /\ DomainCall(r)
    /\ reqs[r].pc = "done"
    /\ reqs[r].g.succeeded = {1, 2, 4}
    /\ reqs[r].g.failed = {3}
    /\ EndpointStatus(r, 2) = Str(<<"not_found">>)
    /\ EndpointStatus(r, 3) = Str(<<"exists">>)

-----------------------------------------------------------------------------
(* Properties of the functions *)

\* C16: for every page and every content type (article, all, text_only)
\* the content that the extractor returns is at most MAX_CONTENT_LENGTH
\* characters long, when an article candidate is accepted and when the
\* extractor falls back to the text of the body.
C16_ContentIsTruncated ==
  fn.f = "extractTextContent" => TextLength(fn.out) <= MAX_CONTENT_LENGTH

-----------------------------------------------------------------------------
(* Properties of maxResults *)

\* request r is a search_web or bulk_search call with an arguments object
SearchCall(r) ==
  /\ Registered(r)
  /\ reqs[r].name \in SearchTools \cup {"bulk_search"}
  /\ reqs[r].args.t = "object"

\* the max_results argument of request r
Supplied(r) ==
  IF reqs[r].name = "bulk_search" THEN reqs[r].args.max_results_per_query
  ELSE reqs[r].args.max_results

DefaultFor(name) ==
  IF name = "bulk_search" THEN DefaultBulkMaxResults ELSE DEFAULT_MAX_RESULTS

IsIntegerInRange(v) ==
  v.t = "number" /\ ~v.nan /\ ~v.frac /\ v.n \in 1..MAX_RESULTS

\* a search of request r was started or answered from the cache
Searched(r) == reqs[r].g.fetches > 0 \/ reqs[r].g.cacheReads > 0

\* C17: every search made for search_web or bulk_search runs with
\* maxResults an integer in 1..50: the default of the tool (10, or 5 per
\* bulk query) when the argument is absent, the argument when it is an
\* integer in 1..50; any other argument is rejected with a ValidationError
\* and no search is made.
C17_MaxResultsIsValidated ==
  \A r \in Requests :
    SearchCall(r) =>
      /\ Searched(r) =>
            /\ reqs[r].options.maxResults \in 1..MAX_RESULTS
            /\ Supplied(r) = Undef =>
                 reqs[r].options.maxResults = DefaultFor(reqs[r].name)
            /\ Supplied(r) # Undef =>
                 /\ IsIntegerInRange(Supplied(r))
                 /\ reqs[r].options.maxResults = Supplied(r).n
      /\ (Supplied(r) # Undef /\ ~IsIntegerInRange(Supplied(r))) =>
            /\ ~Searched(r)
            /\ reqs[r].pc = "done"
            /\ reqs[r].resp = createErrorResult(
                 "Validation error: maxResults must be an integer between 1 and 50")

DomainChars == LowerLetters \cup Digits \cup {"-", "."}

\* C18: domain validation rejects "" and "not a domain!!" and accepts
\* "example.com" and "sub.example.co.uk"; every accepted input is returned
\* in lower case, without scheme and path, matching the label regex, and
\* validating the returned value again returns it unchanged.
C18_DomainIsNormalised ==
  fn.f = "validateDomain" =>
    /\ fn.in \in {Str(<<>>), Str(Chars_not_a_domain)} => ~fn.out.ok
    /\ fn.in \in {Str(Chars_example_com), Str(Chars_sub_example_co_uk)} =>
         fn.out = Ok(fn.in.s)
    /\ fn.out.ok =>
         /\ \A i \in 1..Len(fn.out.v) : fn.out.v[i] \in DomainChars
         /\ MatchesDomainRegex(fn.out.v)
         /\ validateDomain(Str(fn.out.v)) = Ok(fn.out.v)

\* a domain in capitals with scheme and path was accepted
C18_Witness ==
  /\ fn.f = "validateDomain"
  /\ fn.in = Str(<<"H", "T", "T", "P", "S", ":", "/", "/">> \o Chars_sub_example_co_uk \o <<"/", "P", "a", "t", "h", "/", "x">>)
  /\ fn.out = Ok(Chars_sub_example_co_uk)

\* C19: generateKey returns the same key for two argument tuples only if
\* their joined strings (the prefix and the stringified parts, joined with
\* ':') are the same string.
C19_KeysAreInjective ==
  fn.f = "generateKey" =>
    (fn.out[1] = fn.out[2] =>
       joinedKey(Chars_search, fn.in[1]) = joinedKey(Chars_search, fn.in[2]))

\* the containers of doc that the parser of engine selects and that have a
\* title that is not blank and a link the parser looks for
Eligible(doc, engine) ==
  {i \in 1..Len(doc) :
     /\ doc[i].cls = getResultSelector(engine)
     /\ Len(trim(doc[i].title)) > 0
     /\ Truthy(doc[i].href)
     /\ engine = Chars_google => StartsWith(doc[i].href.s, Chars_http)}

\* the k-th eligible container in document order
KthEligible(doc, engine, k) ==
  CHOOSE i \in Eligible(doc, engine) :
    Cardinality({j \in Eligible(doc, engine) : j < i}) = k - 1

Smaller(a, b) == IF a < b THEN a ELSE b

\* C20: parse(html, engine, maxResults) returns the first maxResults result
\* containers, in document order, among those with a title that is not
\* empty and a link: the others are skipped and do not count toward the
\* limit, and a document without matching container gives [].
C20_ParseTakesTheFirstWellFormed ==
  fn.f = "parseSearchResults" =>
    /\ Len(fn.out) = Smaller(fn.in[3], Cardinality(Eligible(fn.in[1], fn.in[2])))
    /\ \A k \in 1..Len(fn.out) :
         /\ ObjGet(fn.out[k], "title") =
              Str(trim(fn.in[1][KthEligible(fn.in[1], fn.in[2], k)].title))
         /\ ObjGet(fn.out[k], "url") = fn.in[1][KthEligible(fn.in[1], fn.in[2], k)].href
    /\ ~SelectorMatches(fn.in[1], getResultSelector(fn.in[2])) => fn.out = <<>>

\* of a container without link and two well-formed ones, the second
\* container is the one result
C20_Witness ==
  /\ fn.f = "parseSearchResults"
  /\ fn.in = << <<ContainerAt("nolink", 1), ContainerAt("result", 2),
                  ContainerAt("result", 3)>>, Chars_duckduckgo, 1 >>
  /\ Len(fn.out) = 1
  /\ ObjGet(fn.out[1], "title") = Str(<<"T", "2">>)

\* C21: at most one browser launched by the browser service is alive, every
\* live browser is the one this.browser refers to, and none is left running
\* once the process has exited.
C21_OneBrowserIsShared ==
  /\ Cardinality(browser.connected) <= 1
  /\ browser.connected \subseteq {browser.handle}
  /\ proc.state = "exited" => browser.connected = {}

\* a shutdown path is taken: a termination signal or an uncaught exception
\* ends the process, or run() fails
ShutdownPath ==
  /\ proc.state \in {"starting", "running"}
  /\ proc'.state \in {"exited", "failed"}

\* C22: on every shutdown path of a server that owns a cache (termination
\* signal, uncaught exception, failed start) destroy() is called; destroy()
\* cancels the sweep and clears the store; once the sweep is cancelled no
\* sweep tick runs again.
C22_DestroyOnEveryShutdownPath ==
  [][/\ ShutdownPath => proc'.cleanups > proc.cleanups
     /\ proc'.cleanups > proc.cleanups => ~timerOn' /\ cache' = EmptyStore
     /\ ~timerOn => ~timerOn' /\ ~SweepTick]_vars

\* a termination signal ends a server that had stored an entry: the store is
\* empty and the sweep is cancelled
C22_Witness ==
  /\ proc.state = "exited"
  /\ proc.exitCode = 0
  /\ \E k \in CacheKeys : lastSet[k].live
  /\ cache = EmptyStore
  /\ ~timerOn

Stale(c, k, t) == t - c[k].timestamp > CacheTTL

\* C23: a tick of the periodic sweep deletes every entry with
\* now - timestamp > ttl and no other: after it no stale entry remains, and
\* every entry with now - timestamp <= ttl is there with the value and the
\* timestamp it had.
C23_SweepDeletesExactlyTheStale ==
  [][lastOp'.op = "sweep" =>
       /\ now' = now
       /\ DOMAIN cache' = {k \in DOMAIN cache : ~Stale(cache, k, now)}
       /\ \A k \in DOMAIN cache' : cache'[k] = cache[k] /\ ~Stale(cache', k, now')]_vars

\* after a tick one key that was set is gone, being older than ttl, and
\* another is kept at the age of exactly ttl
C23_Witness ==
  /\ lastOp.op = "sweep"
  /\ lastOp.prevOp = "tick"
  /\ \E k \in CacheKeys :
       lastSet[k].live /\ now - lastSet[k].timestamp > CacheTTL /\ k \notin DOMAIN cache
  /\ \E k \in DOMAIN cache : now - cache[k].timestamp = CacheTTL

\* the tasks of request q whose search is started and has not settled
FetchesInFlight(q) == {i \in 1..Len(q.tasks) : q.tasks[i].state = "fetching"}

\* C24: a bulk_search call with N valid queries that all miss the cache has
\* started N searches by the time its handler first awaits, so that before
\* any of them settles N are in flight, whatever MAX_CONCURRENT is; none is
\* queued; and the call is answered when, and only when, all N have settled.
C24_BulkStartsEveryFetchAtOnce ==
  \A r \in 1..MaxReqs :
    (reqs[r].name = "bulk_search" /\ reqs[r].pc # "new" /\ reqs[r].g.thrown = 0) =>
      /\ Len(reqs[r].tasks) = Len(reqs[r].args.queries.a)
      /\ reqs[r].g.fetches = Len(reqs[r].tasks)
      /\ FetchesInFlight(reqs[r]) =
           (1..Len(reqs[r].tasks)) \ (reqs[r].g.succeeded \cup reqs[r].g.failed)
      /\ reqs[r].pc = "done" <=> AllSettled(reqs[r].tasks)
      /\ reqs[r].g.responses = IF AllSettled(reqs[r].tasks) THEN 1 ELSE 0

\* ten searches of one call are in flight and none has settled
C24_Witness ==
  /\ reqs[1].name = "bulk_search"
  /\ reqs[1].pc = "waiting"
  /\ Cardinality(FetchesInFlight(reqs[1])) = MaxQueries
  /\ MaxQueries > MAX_CONCURRENT
  /\ reqs[1].g.succeeded \cup reqs[1].g.failed = {}

\* request r stores a result in this step
Stores(r) == reqs'[r].g.cacheWrites > reqs[r].g.cacheWrites

\* the task of request r whose search settles in this step
SettlesNow(r) ==
  CHOOSE i \in 1..Len(reqs[r].tasks) :
    reqs[r].tasks[i].state = "fetching" /\ reqs'[r].tasks[i].state = "settled"

\* the key and the value that request r stores in this step
StoredKey(r) ==
  IF reqs[r].name = "bulk_search"
  THEN bulkSearchKey(reqs[r].options, reqs[r].tasks[SettlesNow(r)].query)
  ELSE webSearchKey(reqs[r].options)

StoredValue(r) ==
  IF reqs[r].name = "bulk_search"
  THEN ObjGet(reqs'[r].tasks[SettlesNow(r)].entry, "results")
  ELSE reqs'[r].tasks[1].entry

\* C25: a cache write changes the entry of its key and no other entry, and
\* the entry is the value of that write at the time of that write, whatever
\* was stored under the key before: of two requests for one key that both
\* missed and fetched, the later set is the one the store holds, and sets
\* of different keys both stay.
C25_SetIsKeyLocalLastWriterWins ==
  [][\A r \in 1..MaxReqs :
       Stores(r) =>
         /\ DOMAIN cache' = DOMAIN cache \cup {StoredKey(r)}
         /\ cache'[StoredKey(r)] = [results |-> StoredValue(r), timestamp |-> now]
         /\ \A k \in DOMAIN cache \ {StoredKey(r)} : cache'[k] = cache[k]]_vars

\* two search_web requests for one key both missed, fetched and stored
\* different results; the store holds what the first request stored, later
\* than the second
C25_Witness ==
  /\ variant = "enhanced"
  /\ \A r \in {1, 2} :
       /\ reqs[r].name = "search_web"
       /\ reqs[r].pc = "done"
       /\ reqs[r].g.fetches = 1
       /\ reqs[r].g.cacheWrites = 1
  /\ webSearchKey(reqs[1].options) = webSearchKey(reqs[2].options)
  /\ reqs[1].tasks[1].entry # reqs[2].tasks[1].entry
  /\ cache[webSearchKey(reqs[1].options)].results = reqs[1].tasks[1].entry
  /\ cache[webSearchKey(reqs[1].options)].timestamp > 0

\* request r is a search_web call that started its search
SearchStarted(r) == reqs[r].name = "search_web" /\ reqs[r].g.fetches = 1

\* the URL that the engine's parameters give for the validated options of
\* request r
UrlOfOptions(r) ==
  buildSearchUrl(reqs[r].options.query, reqs[r].options.engine,
                 [language |-> Str(reqs[r].options.language),
                  region |-> Str(reqs[r].options.region),
                  safeSearch |-> Bool(reqs[r].options.safeSearch)])

\* C26: the URL that a search_web call fetches is the one its validated
\* language, region and safe_search options give with the parameter names
\* of its engine, so that two calls whose options give different URLs fetch
\* different URLs.
C26_OptionsDetermineTheUrl ==
  /\ \A r \in 1..MaxReqs : SearchStarted(r) => reqs[r].g.urls = <<UrlOfOptions(r)>>
  /\ \A r1, r2 \in 1..MaxReqs :
       (SearchStarted(r1) /\ SearchStarted(r2) /\ UrlOfOptions(r1) # UrlOfOptions(r2)) =>
         reqs[r1].g.urls # reqs[r2].g.urls

\* the content type that extractContentFromHtml passes on
EffectiveType(contentType) ==
  IF contentType = Undef THEN Chars_article ELSE contentType.s

\* the candidate of selector k, $(selector).first(), stripped of its
\* non-content subtrees, has a text of more than 100 characters
Qualifies(page, k) ==
  /\ FirstMatch(page, CONTENT_SELECTORS_ARTICLE[k]) # 0
  /\ TextLength(NormalText(page[FirstMatch(page, CONTENT_SELECTORS_ARTICLE[k])].text)) > 100

\* the first selector, in the order of CONTENT_SELECTORS.ARTICLE, whose
\* candidate qualifies
FirstQualifying(page) ==
  CHOOSE k \in 1..5 : Qualifies(page, k) /\ \A j \in 1..(k - 1) : ~Qualifies(page, j)

\* a text as the extractor returns it: cut at MAX_CONTENT_LENGTH, except the
\* text of the body for text_only
CutAsReturned(text, type, body) ==
  IF body /\ type = Chars_text_only THEN text ELSE SubstringText(text, MAX_CONTENT_LENGTH)

\* C27: for content_type article the extractor returns the text, stripped of
\* the non-content subtrees, of the first candidate in the order article,
\* [role="main"], .content, .post, .entry that is longer than 100
\* characters, and the text of the body when no candidate qualifies; for the
\* other content types no candidate is consulted and the text of the body is
\* returned (the text returned is cut as C16 describes).
C27_FirstQualifyingCandidate ==
  fn.f = "extractTextContent" =>
    /\ CONTENT_SELECTORS_ARTICLE = <<"article", "[role=main]", ".content", ".post", ".entry">>
    /\ IF EffectiveType(fn.in[2]) = Chars_article /\ \E k \in 1..5 : Qualifies(fn.in[1], k)
       THEN fn.out =
              CutAsReturned(NormalText(fn.in[1][FirstMatch(fn.in[1],
                           CONTENT_SELECTORS_ARTICLE[FirstQualifying(fn.in[1])])].text),
                         Chars_article, FALSE)
       ELSE fn.out = CutAsReturned(bodyText(fn.in[1]), EffectiveType(fn.in[2]), TRUE)

\* an .entry element comes first in the page and an article element second,
\* both long enough: the text of the article element is returned
C27_Witness ==
  /\ fn.f = "extractTextContent"
  /\ fn.in = << <<ElementAt(1, ".entry", MinArticleLength + 1, 0),
                  ElementAt(2, "article", MinArticleLength + 1, 2 * MinArticleLength)>>,
                Str(Chars_article) >>
  /\ fn.out = TextOf("b", MinArticleLength + 1)

\* ---------------------------------------------------------------------
\* C28
\* ---------------------------------------------------------------------

\* the references new URL rejects whatever the base: one without host and
\* one with a space in its host
Unresolvable ==
  { <<"h", "t", "t", "p", ":", "/", "/">>,
    <<"h", "t", "t", "p", "s", ":", "/", "/", "b", " ", "c", "/">> }

Origin_a == Chars_https \o <<":", "/", "/">> \o Chars_a_com

\* the absolute URL of each reference of the pages, as WHATWG resolution
\* gives it against a base under https://a.com
ExpectedAbsolute(ref, baseUrl) ==
  CASE ref = <<"x">> -> IF baseUrl = Url_page THEN Origin_a \o <<"/", "x">>
                        ELSE Origin_a \o <<"/", "d", "/", "x">>
    [] ref = <<"?", "q", "=", "1">> -> baseUrl \o ref
    [] ref = <<"#", "t", "o", "p">> -> baseUrl \o ref
    [] ref = <<"/", "/", "b", ".", "o", "r", "g", "/", "y">> ->
         Chars_https \o <<":">> \o ref
    [] ref = Href_b -> Href_b \o <<"/">>
    [] ref = <<"m", "a", "i", "l", "t", "o", ":", "x">> -> ref
    [] ref = <<".", ".", "/", "x">> -> Origin_a \o <<"/", "x">>
    [] OTHER -> Origin_a \o ref

\* a string that begins with a scheme and a colon
IsAbsolute(s) ==
  \E n \in 1..Len(s) :
    /\ s[n] = ":"
    /\ n > 1
    /\ \A i \in 1..(n - 1) : IsAlnum(s[i]) \/ s[i] \in {"+", "-", "."}

\* the positions of the anchors that give a link, and of the images that
\* give an image
LinkPositions(anchors) ==
  {i \in 1..Len(anchors) :
     /\ Len(anchors[i].href) > 0
     /\ \E j \in 1..Len(anchors[i].text) : anchors[i].text[j] \notin WhiteSpace
     /\ anchors[i].href \notin Unresolvable}

ImagePositions(imgs) ==
  {i \in 1..Len(imgs) : Len(imgs[i].src) > 0 /\ imgs[i].src \notin Unresolvable}

\* the k-th member of a set of positions
KthOf(positions, k) ==
  CHOOSE i \in positions : Cardinality({j \in positions : j < i}) = k - 1

\* C28: the links of a page are the first 50 anchors that have a reference
\* that resolves and a text, the images the first 20 images with a source
\* that resolves; each href and src is the absolute URL of the reference
\* resolved against the URL of the page; an anchor or image that does not
\* resolve is left out, the extraction still returns, and the entry does not
\* count toward the 50 or the 20.
C28_LinksAndImagesAreCappedAndAbsolute ==
  /\ fn.f = "extractLinks" =>
       /\ Len(fn.out) <= 50
       /\ Len(fn.out) = Smaller(50, Cardinality(LinkPositions(fn.in[1])))
       /\ \A k \in 1..Len(fn.out) :
            /\ IsAbsolute(ObjGet(fn.out[k], "href").s)
            /\ ObjGet(fn.out[k], "href") =
                 Str(ExpectedAbsolute(fn.in[1][KthOf(LinkPositions(fn.in[1]), k)].href,
                                      fn.in[2]))
  /\ fn.f = "extractImages" =>
       /\ Len(fn.out) <= 20
       /\ Len(fn.out) = Smaller(20, Cardinality(ImagePositions(fn.in[1])))
       /\ \A k \in 1..Len(fn.out) :
            /\ IsAbsolute(ObjGet(fn.out[k], "src").s)
            /\ ObjGet(fn.out[k], "src") =
                 Str(ExpectedAbsolute(fn.in[1][KthOf(ImagePositions(fn.in[1]), k)].src,
                                      fn.in[2]))

\* a page at https://a.com/p with an anchor that does not resolve, an anchor
\* without text and 51 anchors /x1 .. /x51 gives 50 links, the first of
\* them https://a.com/x1 and the last https://a.com/x50
C28_Witness ==
  /\ fn.f = "extractLinks"
  /\ fn.in[2] = Url_page
  /\ Len(fn.in[1]) = 53
  /\ fn.in[1][1].href \in Unresolvable
  /\ Len(fn.out) = 50
  /\ ObjGet(fn.out[1], "href") = Str(Origin_a \o <<"/", "x", "1">>)
  /\ ObjGet(fn.out[50], "href") = Str(Origin_a \o <<"/", "x", "5", "0">>)

\* the same for 21 images after one that does not resolve
C28_WitnessImages ==
  /\ fn.f = "extractImages"
  /\ fn.in[2] = Url_page
  /\ Len(fn.in[1]) = 22
  /\ fn.in[1][1].src \in Unresolvable
  /\ Len(fn.out) = 20
  /\ ObjGet(fn.out[20], "src") = Str(Origin_a \o <<"/", "x", "2", "0">>)

\* ---------------------------------------------------------------------
\* C29
\* ---------------------------------------------------------------------

\* request r is, after this step, a search_web or bulk_search call with
\* use_cache false, and this step is a step of its handler
CacheOffStep(r) ==
  /\ reqs'[r] # reqs[r]
  /\ reqs'[r].name \in {"search_web", "bulk_search"}
  /\ reqs'[r].args.use_cache = Bool(FALSE)

\* the number of queries of a call
QueriesOf(q) == IF q.name = "bulk_search" THEN Len(q.args.queries.a) ELSE 1

\* C29: a step of a search_web or bulk_search call with use_cache false
\* leaves the store as it is, keys, values and timestamps; the call has read
\* and written no entry; and once its handler has started its searches it
\* has started one for each of its queries.
C29_UseCacheFalseLeavesTheCacheAlone ==
  [][\A r \in 1..MaxReqs :
       CacheOffStep(r) =>
         /\ cache' = cache
         /\ reqs'[r].g.cacheReads = 0
         /\ reqs'[r].g.cacheWrites = 0
         /\ reqs'[r].g.thrown = 0 => reqs'[r].g.fetches = QueriesOf(reqs'[r])]_vars

\* a search_web call with use_cache false was answered from a fetch of its
\* own while the store held an entry of its key that had expired, and the
\* entry is still there
C29_Witness ==
  /\ variant = "enhanced"
  /\ reqs[2].name = "search_web"
  /\ reqs[2].args.use_cache = Bool(FALSE)
  /\ reqs[2].pc = "done"
  /\ reqs[2].g.fetches = 1
  /\ reqs[2].g.succeeded # {}
  /\ reqs[1].g.cacheWrites = 1
  /\ webSearchKey(reqs[2].options) \in DOMAIN cache
  /\ cache[webSearchKey(reqs[2].options)].results = reqs[1].tasks[1].entry
  /\ now - cache[webSearchKey(reqs[2].options)].timestamp > CacheTTL

\* the same for a bulk_search call with use_cache false of two queries
C29_WitnessBulk ==
  /\ variant = "enhanced"
  /\ reqs[2].name = "bulk_search"
  /\ reqs[2].args.use_cache = Bool(FALSE)
  /\ reqs[2].pc = "done"
  /\ reqs[2].g.fetches = 2
  /\ reqs[1].g.cacheWrites > 0
  /\ bulkSearchKey(reqs[2].options, reqs[2].tasks[1].query) \in DOMAIN cache

\* ---------------------------------------------------------------------
\* C30
\* ---------------------------------------------------------------------

\* a search of request r fails in this step
FailsNow(r) == reqs'[r].g.failed # reqs[r].g.failed

\* a search of request r succeeds in this step
SucceedsNow(r) == reqs'[r].g.succeeded # reqs[r].g.succeeded

\* request r is a search_web or bulk_search call of the enhanced server
\* that uses the cache
CachingSearch(r) ==
  /\ variant = "enhanced"
  /\ reqs[r].name \in {"search_web", "bulk_search"}
  /\ reqs[r].options.useCache

\* request r arrives in this step, as a search_web call that passes its
\* validation and uses the cache
WebSearchArrives(r) ==
  /\ variant = "enhanced"
  /\ reqs[r].pc = "new"
  /\ reqs'[r].name = "search_web"
  /\ reqs'[r].g.thrown = 0
  /\ reqs'[r].options.useCache

\* the store holds, not expired, an empty result list under key
HoldsEmptyList(key) ==
  /\ key \in DOMAIN cache
  /\ cache[key].results = Arr(<<>>)
  /\ now - cache[key].timestamp <= CacheTTL

\* task i of request r was searched for, not answered from the store
SearchedAfresh(r, i) ==
  \/ i \in reqs[r].g.succeeded \cup reqs[r].g.failed
  \/ reqs[r].tasks[i].state = "fetching"

\* request 2 is the same call as request 1 and has passed its validation
SameCallStarted ==
  /\ reqs[2].pc # "new"
  /\ reqs[2].name = reqs[1].name
  /\ reqs[2].args = reqs[1].args
  /\ reqs[2].g.thrown = 0 \/ reqs[2].g.fetches > 0

\* what the steps of the searches do to the store
SearchOutcomeStep(r) ==
  /\ FailsNow(r) =>
       /\ cache' = cache
       /\ reqs'[r].g.cacheWrites = reqs[r].g.cacheWrites
  /\ (SucceedsNow(r) /\ CachingSearch(r)
        /\ StoredValue(r) = Arr(<<>>)) =>
       /\ StoredKey(r) \in DOMAIN cache'
       /\ cache'[StoredKey(r)] = [results |-> Arr(<<>>), timestamp |-> now]
  /\ (WebSearchArrives(r) /\ HoldsEmptyList(webSearchKey(reqs'[r].options))) =>
       /\ reqs'[r].pc = "done"
       /\ reqs'[r].g.fetches = 0
       /\ reqs'[r].g.cacheReads = 1
       /\ cache' = cache

\* C30: a search that fails leaves the store as it is and counts as no
\* write; what the store holds is always a result list, never an error; a
\* call that repeats a search_web call whose search failed, or a bulk_search
\* call one of whose searches failed, searches again for it; and a search
\* that succeeds with an empty list stores the empty list, which a later
\* search_web call for the same key is answered from without a fetch.
C30_FailuresAreNotCachedEmptyListsAre ==
  /\ [](\A k \in DOMAIN cache : cache[k].results.t = "array")
  /\ [](\A i \in reqs[1].g.failed :
          (CachingSearch(1) /\ SameCallStarted) => SearchedAfresh(2, i))
  /\ [][\A r \in 1..MaxReqs : SearchOutcomeStep(r)]_vars

\* the search of a search_web call failed, the store is empty, and the same
\* call made again has started a search of its own
C30_Witness ==
  /\ CachingSearch(1)
  /\ reqs[1].name = "search_web"
  /\ reqs[1].pc = "done"
  /\ reqs[1].g.failed = {1}
  /\ reqs[1].g.cacheWrites = 0
  /\ DOMAIN cache = {}
  /\ SameCallStarted
  /\ reqs[2].g.fetches = 1
  /\ reqs[2].g.cacheReads = 1

\* a search_web call stored the empty list and the same call made again
\* was answered from the store without a fetch
C30_WitnessEmptyList ==
  /\ CachingSearch(1)
  /\ reqs[1].name = "search_web"
  /\ reqs[1].g.succeeded = {1}
  /\ reqs[1].tasks[1].entry = Arr(<<>>)
  /\ HoldsEmptyList(webSearchKey(reqs[1].options))
  /\ SameCallStarted
  /\ reqs[2].pc = "done"
  /\ reqs[2].g.fetches = 0
  /\ reqs[2].g.cacheReads = 1

\* one search of a bulk_search call failed and the other stored its
\* result: the store holds the one entry
C30_WitnessBulk ==
  /\ CachingSearch(1)
  /\ reqs[1].name = "bulk_search"
  /\ reqs[1].pc = "done"
  /\ reqs[1].g.failed = {1}
  /\ reqs[1].g.succeeded = {2}
  /\ Cardinality(DOMAIN cache) = 1
  /\ bulkSearchKey(reqs[1].options, reqs[1].tasks[1].query) \notin DOMAIN cache

====
